---- MODULE Spec2Model ----
(***************************************************************************)
(* Model of the MySQL audit driver (MysqlDriverImpl): construction, the    *)
(* Audit batch loop and the stages of audit for one statement.             *)
(***************************************************************************)
EXTENDS Integers, Sequences, FiniteSets, TLC

(***************************************************************************)
(* Bounds of the model.                                                    *)
(***************************************************************************)
MaxBatch == 2
MaxSize == 2
MaxConns == 3
MaxTuples == 2
MaxPlanRows == 2

(***************************************************************************)
(* Program constants.                                                      *)
(***************************************************************************)
NoMinSize == -1
GhostMinSizeParam == 1
OSCMinSizeParam == 1

RuleLevelNotice == "notice"
RuleLevelWarn == "warn"
RuleLevelError == "error"

ConfigDDLOSCMinSize == "ddl_check_osc_min_size"
ConfigDDLGhostMinSize == "ddl_check_ghost_min_size"
ConfigOptimizeIndexEnabled == "optimize_index_enabled"
ConfigDMLExplainPreCheckEnable == "dml_enable_explain_pre_check"
ConfigSQLIsExecuted == "sql_is_executed"
SQLE00004 == "SQLE00004"
SQLE00041 == "SQLE00041"
SQLE00063 == "SQLE00063"
RuleNotExecutedOnly == "rule_only_audit_not_executed_sql"
RuleNoExecutedAlter == "rule_not_support_executed_alter"
PreCheckErr == "pre_check_err"

NilErr == "nil"
NilRule == "nil"
NilNode == [kind |-> "nil", table |-> "nil"]

(***************************************************************************)
(* SQL texts of the model and the parser collaborator.                     *)
(***************************************************************************)
EmptySQL == ""
BadSQL == "CREATE TABEL"
CreateT2 == "CREATE TABLE t2 (..., UNIQUE KEY a (c)) AUTO_INCREMENT=1"
AlterT1 == "ALTER TABLE t1 RENAME INDEX a TO b"
AlterT2 == "ALTER TABLE t2 RENAME INDEX a TO b"
SelectT1 == "SELECT * FROM t1"
SQLTexts == {EmptySQL, BadSQL, CreateT2, AlterT1, AlterT2, SelectT1}

\* Tables that exist in the live database.
LiveTables == {"t1"}

(***************************************************************************)
(* Syntax trees (ast).  Index names are sequences of words, which the text *)
(* joins by "_"; a table name and a column name are one word each.         *)
(***************************************************************************)
ConstraintUniq == "ConstraintUniq"
ConstraintUniqIndex == "ConstraintUniqIndex"
ConstraintIndex == "ConstraintIndex"

Constraint(tp, name, keys) == [Tp |-> tp, Name |-> name, Keys |-> keys]

TableOptionAutoIncrement == "TableOptionAutoIncrement"
TableOptionEngine == "TableOptionEngine"

TableOption(tp, uintValue) == [Tp |-> tp, UintValue |-> uintValue]

AlterTableAddConstraint == "AlterTableAddConstraint"
AlterTableRenameIndex == "AlterTableRenameIndex"
AlterTableAddColumns == "AlterTableAddColumns"

AddConstraintSpec(c) == [Tp |-> AlterTableAddConstraint, Constraint |-> c]

RenameIndexSpec(from, to) == [Tp |-> AlterTableRenameIndex, FromKey |-> from, ToKey |-> to]

AddColumnsSpec == [Tp |-> AlterTableAddColumns]

IndexKeyTypeNone == "IndexKeyTypeNone"
IndexKeyTypeUnique == "IndexKeyTypeUnique"
IndexKeyTypeFullText == "IndexKeyTypeFullText"

CreateTableNode(table, options, constraints) ==
  [kind |-> "CreateTableStmt", table |-> table, Options |-> options,
   Constraints |-> constraints]

AlterTableNode(table, specs) ==
  [kind |-> "AlterTableStmt", table |-> table, Specs |-> specs]

CreateIndexNode(table, keyType, indexName, cols) ==
  [kind |-> "CreateIndexStmt", table |-> table, KeyType |-> keyType,
   IndexName |-> indexName, IndexPartSpecifications |-> cols]

\* A variable assignment of SET: the value is a literal (ValueExpr) with
\* the integer int, or another expression.
VariableAssignment(name, isValueExpr, int) ==
  [Name |-> name, Value |-> [isValueExpr |-> isValueExpr, int |-> int]]

SetNode(variables) == [kind |-> "SetStmt", table |-> "nil", Variables |-> variables]

SelectTableNode(table) == [kind |-> "SelectStmt", table |-> table]

ParseSql(sql) ==
  CASE sql = CreateT2 ->
         [err |-> NilErr,
          node |-> CreateTableNode("t2", <<TableOption(TableOptionAutoIncrement, 1)>>,
                                   <<Constraint(ConstraintUniq, <<"a">>, <<"c">>)>>)]
    [] sql = AlterT1 ->
         [err |-> NilErr,
          node |-> AlterTableNode("t1", <<RenameIndexSpec(<<"a">>, <<"b">>)>>)]
    [] sql = AlterT2 ->
         [err |-> NilErr,
          node |-> AlterTableNode("t2", <<RenameIndexSpec(<<"a">>, <<"b">>)>>)]
    [] sql = SelectT1 -> [err |-> NilErr, node |-> SelectTableNode("t1")]
    [] OTHER -> [err |-> "parse error", node |-> NilNode]

(***************************************************************************)
(* Sequences helpers.                                                      *)
(***************************************************************************)
Range(s) == {s[j] : j \in 1..Len(s)}

SeqsUpTo(S, n) == UNION {[1..m -> S] : m \in 0..n}

(***************************************************************************)
(* Rule descriptors of a configuration (driverV2.Rule): name, level and    *)
(* parameters.                                                             *)
(***************************************************************************)
DefaultSingleParamKeyName == "first_key"

Param(key, value) == [Key |-> key, Value |-> value]

NilParam == [Key |-> "nil", Value |-> <<>>]

\* The prefix "uniq_", the default value of the parameter of SQLE00041.
UniqPrefix == <<"uniq">>

DefaultParams == <<Param(DefaultSingleParamKeyName, UniqPrefix)>>

RuleWith(name, level, ps) == [Name |-> name, Level |-> level, Params |-> ps]

Rule(name, level) == RuleWith(name, level, DefaultParams)

\* params.Params.GetParam: the parameter of that key, if there is one.
GetParam(ps, key) ==
  IF \E j \in 1..Len(ps) : ps[j].Key = key
  THEN ps[CHOOSE j \in 1..Len(ps) :
            ps[j].Key = key /\ \A h \in 1..(j - 1) : ps[h].Key # key]
  ELSE NilParam

ConfigLists ==
  { <<>>,
    <<Rule(ConfigDDLGhostMinSize, RuleLevelNotice)>>,
    <<Rule(ConfigDDLOSCMinSize, RuleLevelNotice)>>,
    <<Rule(ConfigOptimizeIndexEnabled, RuleLevelNotice)>>,
    <<Rule(ConfigDMLExplainPreCheckEnable, RuleLevelNotice)>>,
    <<Rule(ConfigSQLIsExecuted, RuleLevelNotice)>>,
    <<Rule(ConfigSQLIsExecuted, RuleLevelNotice), Rule(ConfigDDLGhostMinSize, RuleLevelWarn)>> }

HandlerLists ==
  { <<Rule(SQLE00041, RuleLevelNotice), Rule(SQLE00004, RuleLevelWarn)>>,
    <<Rule(SQLE00063, RuleLevelWarn), Rule(SQLE00041, RuleLevelWarn)>>,
    <<Rule(RuleNotExecutedOnly, RuleLevelError), Rule(SQLE00004, RuleLevelNotice),
      Rule(RuleNoExecutedAlter, RuleLevelWarn)>> }

RuleLists ==
  {c \o h : c \in ConfigLists, h \in HandlerLists} \cup
  {h \o c : c \in ConfigLists, h \in HandlerLists}

VARIABLES
  pc,             \* position of the caller / of Audit / of audit
  rules,          \* MysqlDriverImpl.rules
  cnf,            \* MysqlDriverImpl.cnf
  isOfflineAudit, \* MysqlDriverImpl.isOfflineAudit
  isConnected,    \* MysqlDriverImpl.isConnected
  inst,           \* MysqlDriverImpl.inst: "nil" or "dsn"
  Ctx,            \* MysqlDriverImpl.Ctx (session.Context)
  result,         \* MysqlDriverImpl.result: findings of the statement under audit
  HasInvalidSql,  \* MysqlDriverImpl.HasInvalidSql
  sqls,           \* Audit: the batch
  k,              \* Audit: position in the batch
  results,        \* Audit: local slice of completed results
  ret,            \* Audit: returned (results, err)
  node,           \* audit: nodes[0]
  ruleIdx,        \* audit: position of the dispatch loop in i.rules
  ghostRule,      \* audit: ghostRule
  auditErr,       \* audit: returned error
  stages,         \* history: stages run for the statement under audit
  invoked,        \* history: rule names whose handler was invoked for the statement
  failed,         \* history: rule names whose handler returned an error for the statement
  dryRuns,        \* history: dry-run outcomes of the statement
  ctxAtStart,     \* history: Ctx when the audit of the statement started
  audited         \* history: batch positions whose audit has started

VARIABLES
  dbConn,         \* MysqlDriverImpl.dbConn: 0 (nil) or the id of a connection
  conns,          \* every connection ever opened: whether open, and how often closed
  cancelled,      \* the caller's context is done
  op,             \* the operation the caller is in
  queries,        \* ExecBatch: the batch
  qi,             \* ExecBatch: position in the batch
  execResults,    \* ExecBatch: local slice of results
  execRet,        \* Exec / ExecBatch: returned (results, err)
  query,          \* Exec: the statement
  useGhost,       \* Exec: useGhost
  tableSize,      \* onlineddlWithGhost: tableSize
  toolCalls,      \* history: invocations of the online-DDL tool by this Exec or audit
  dbExecs         \* history: statements this Exec ran on the connection

VARIABLES
  estPc,          \* position of GetAffectedRowNum
  originSql,      \* GetAffectedRowNum: the statement (parsed form of originSql)
  cannotConvert,  \* GetAffectedRowNum: cannotConvert
  newNode,        \* GetAffectedRowNum: newNode
  affectedRowSql, \* GetAffectedRowNum: affectedRowSql
  estRet,         \* GetAffectedRowNum: returned (count, err)
  estLog,         \* history: what was sent to the database, in order
  sqlIn,          \* history: the statement GetAffectedRowNum was called with
  epRecords,      \* GetAffectedRowNum: epRecords
  row,            \* GetAffectedRowNum: row
  reply           \* EstimateSQLAffectRows: returned (reply, err)

VARIABLES
  checkErr,       \* audit: err of CheckInvalid / CheckInvalidOffline
  resultId,       \* the AuditResults object i.result points to (0: the constructor's)
  resultIds,      \* Audit: the objects the entries of results point to
  oscErr,         \* audit: err of generateOSCCommandLine
  oscCommandLine  \* audit: oscCommandLine is not nil

VARIABLES
  uPc,            \* position of the call of util.IsIndex
  isIndexArgs,    \* IsIndex: columnMap and constraints
  isIndexRet      \* IsIndex: the value returned

VARIABLES
  established     \* how many connections getDbConn has established

VARIABLES
  hPc,            \* position of the handler called on its own
  input,          \* rulepkg.RuleHandlerInput: Ctx, Rule, Res and Node
  hErr            \* the error the handler returned

driverVars == <<rules, cnf, isOfflineAudit, isConnected, inst, HasInvalidSql>>
connVars == <<dbConn, conns, established>>
execVars == <<queries, qi, execResults, execRet, query, useGhost, tableSize>>
execHist == <<toolCalls, dbExecs>>
opsVars == <<connVars, cancelled, op, execVars, execHist>>
estVars == <<estPc, originSql, cannotConvert, newNode, affectedRowSql, estRet, estLog,
             sqlIn, epRecords, row, reply>>
oscVars == <<oscErr, oscCommandLine>>
objVars == <<checkErr, resultId, resultIds, oscVars>>
utilVars == <<uPc, isIndexArgs, isIndexRet>>
ruleVars == <<hPc, input, hErr, utilVars>>
callVars == <<sqls, k, results, ret>>
auditVars == <<node, ruleIdx, ghostRule, auditErr>>
histVars == <<stages, invoked, failed, dryRuns, ctxAtStart, audited>>
vars == <<pc, driverVars, Ctx, result, callVars, auditVars, histVars, opsVars, estVars,
          objVars, ruleVars>>


(***************************************************************************)
(* Session context (session.Context): the tables defined by the DDL seen   *)
(* in this session, the statements whose effect was applied, in order, and *)
(* whether a live executor is attached.                                    *)
(***************************************************************************)
NewContext(withExecutor) ==
  [tables |-> {}, updates |-> <<>>, hasExecutor |-> withExecutor]

UpdateContext(ctx, n) ==
  [ctx EXCEPT !.updates = Append(@, n),
              !.tables = IF n.kind = "CreateTableStmt" THEN @ \cup {n.table}
                         ELSE IF n.kind = "DropTableStmt" THEN @ \ {n.table}
                         ELSE @]

\* util.GetCreateTableStmt: the definition known to the session, else the
\* one fetched through the live executor, else an error.
GetCreateTableStmt(ctx, table) ==
  IF table \in ctx.tables THEN NilErr
  ELSE IF ctx.hasExecutor /\ table \in LiveTables THEN NilErr
  ELSE "table not exist"

\* The definition of a table of the live database: one unique key a (c).
LiveTableDef(table) ==
  CreateTableNode(table, <<>>, <<Constraint(ConstraintUniq, <<"a">>, <<"c">>)>>)

\* util.GetCreateTableStmt: the statement it returns when it returns no
\* error.
CreateTableStmtOf(ctx, table) ==
  IF table \in ctx.tables
  THEN LET creates == {j \in 1..Len(ctx.updates) :
                         /\ ctx.updates[j].kind = "CreateTableStmt"
                         /\ ctx.updates[j].table = table}
       IN  ctx.updates[CHOOSE j \in creates : \A h \in creates : h <= j]
  ELSE LiveTableDef(table)

(***************************************************************************)
(* Audit results (driverV2.AuditResults): an ordered list of findings.     *)
(***************************************************************************)
NewAuditResults == <<>>

Finding(level, name, execFailed) ==
  [Level |-> level, RuleName |-> name, ExecutionFailed |-> execFailed]

Add(res, level, name) == Append(res, Finding(level, name, FALSE))

AddResultWithError(res, level, name, isRuleExecuteFail) ==
  Append(res, Finding(level, name, isRuleExecuteFail))

HasResult(res) == Len(res) > 0

\* rulepkg.AddResult: a finding at the level of the rule as configured.
AddResult(res, rule) == Add(res, rule.Level, rule.Name)

(***************************************************************************)
(* Rule handlers.  A handler returns the error and the result set.         *)
(***************************************************************************)
HandlerReturn(err, res) == [err |-> err, res |-> res]

\* strings.ToUpper on the words of the model.
ToUpper(w) ==
  CASE w = "idx" -> "IDX"
    [] w = "uk" -> "UK"
    [] w = "t1" -> "T1"
    [] w = "c" -> "C"
    [] w = "auto_increment_offset" -> "AUTO_INCREMENT_OFFSET"
    [] OTHER -> w

\* strings.EqualFold on names.
EqualFold(a, b) ==
  /\ Len(a) = Len(b)
  /\ \A j \in 1..Len(a) : ToUpper(a[j]) = ToUpper(b[j])

\* strings.HasPrefix on names.
HasPrefix(name, prefix) ==
  /\ Len(prefix) <= Len(name)
  /\ SubSeq(name, 1, Len(prefix)) = prefix

\* strings.Join(cols, "_"): the empty text for no column.
Join(cols) == IF cols = <<>> THEN <<"">> ELSE cols

NilOption == [Tp |-> "nil", UintValue |-> 0]

\* util.GetTableOption: the first option of that type.
GetTableOption(options, tp) ==
  IF \E j \in 1..Len(options) : options[j].Tp = tp
  THEN options[CHOOSE j \in 1..Len(options) :
                 options[j].Tp = tp /\ \A h \in 1..(j - 1) : options[h].Tp # tp]
  ELSE NilOption

\* util.GetTableConstraints: the constraints of one of the types.
GetTableConstraints(constraints, tps) ==
  SelectSeq(constraints, LAMBDA c : c.Tp \in tps)

\* RuleSQLE00004, lines 70-84: some assignment of the SET reports.
SetReports00004(variables) ==
  \E j \in 1..Len(variables) :
    /\ EqualFold(<<variables[j].Name>>, <<"auto_increment_offset">>)
    /\ variables[j].Value.isValueExpr
    /\ variables[j].Value.int > 1

RuleSQLE00004(ctx, rule, res, n) ==
  CASE n.kind = "CreateTableStmt" ->
         LET option == GetTableOption(n.Options, TableOptionAutoIncrement)
         IN  IF option # NilOption /\ option.UintValue # 0
             THEN HandlerReturn(NilErr, AddResult(res, rule))
             ELSE HandlerReturn(NilErr, res)
    [] n.kind = "SetStmt" ->
         IF SetReports00004(n.Variables)
         THEN HandlerReturn(NilErr, AddResult(res, rule))
         ELSE HandlerReturn(NilErr, res)
    [] OTHER -> HandlerReturn(NilErr, res)

IsUnique00041(c) == c.Tp = ConstraintUniq \/ c.Tp = ConstraintUniqIndex

\* RuleSQLE00041, lines 89-104: renameto_map after the loop over the specs.
RenameToMap(specs) ==
  LET renames == {j \in 1..Len(specs) : specs[j].Tp = AlterTableRenameIndex}
      last(from) == CHOOSE j \in renames :
                      /\ specs[j].FromKey = from
                      /\ \A h \in renames : specs[h].FromKey = from => h <= j
  IN  [from \in {specs[j].FromKey : j \in renames} |-> specs[last(from)].ToKey]

\* RuleSQLE00041, lines 92-99: an ADD of a unique constraint whose name lacks
\* the prefix ends the handler with a finding, before the renames are
\* looked at.
AddReports00041(specs, requiredPrefix) ==
  \E j \in 1..Len(specs) :
    /\ specs[j].Tp = AlterTableAddConstraint
    /\ IsUnique00041(specs[j].Constraint)
    /\ ~HasPrefix(specs[j].Constraint.Name, requiredPrefix)

\* RuleSQLE00041, lines 113-124.
RenameReports00041(createTableStmt, renameto_map, requiredPrefix) ==
  LET constraints == GetTableConstraints(createTableStmt.Constraints,
                                         {ConstraintUniqIndex, ConstraintUniq})
  IN  \E j \in 1..Len(constraints) :
        /\ constraints[j].Name \in DOMAIN renameto_map
        /\ ~HasPrefix(renameto_map[constraints[j].Name], requiredPrefix)

RuleSQLE00041(ctx, rule, res, n) ==
  LET param == GetParam(rule.Params, DefaultSingleParamKeyName)
      requiredPrefix == param.Value
  IN  IF param = NilParam THEN HandlerReturn("param not found", res)
      ELSE
      CASE n.kind = "AlterTableStmt" ->
             IF AddReports00041(n.Specs, requiredPrefix)
             THEN HandlerReturn(NilErr, AddResult(res, rule))
             ELSE IF DOMAIN RenameToMap(n.Specs) = {}
             THEN HandlerReturn(NilErr, res)
             ELSE IF GetCreateTableStmt(ctx, n.table) # NilErr
             THEN HandlerReturn(GetCreateTableStmt(ctx, n.table), res)
             ELSE IF RenameReports00041(CreateTableStmtOf(ctx, n.table),
                                        RenameToMap(n.Specs), requiredPrefix)
             THEN HandlerReturn(NilErr, AddResult(res, rule))
             ELSE HandlerReturn(NilErr, res)
        [] n.kind = "CreateTableStmt" ->
             IF \E j \in 1..Len(n.Constraints) :
                  /\ IsUnique00041(n.Constraints[j])
                  /\ ~HasPrefix(n.Constraints[j].Name, requiredPrefix)
             THEN HandlerReturn(NilErr, AddResult(res, rule))
             ELSE HandlerReturn(NilErr, res)
        [] n.kind = "CreateIndexStmt" ->
             IF n.KeyType = IndexKeyTypeNone /\ ~HasPrefix(n.IndexName, requiredPrefix)
             THEN HandlerReturn(NilErr, AddResult(res, rule))
             ELSE HandlerReturn(NilErr, res)
        [] OTHER -> HandlerReturn(NilErr, res)

\* RuleSQLE00063, lines 80-85.
isIndexNameViolate(indexName, tableName, cols) ==
  ~EqualFold(indexName, <<"IDX", "UK", tableName>> \o Join(cols))

\* RuleSQLE00063, lines 116-130: the loop over the unique constraints of the
\* table for one RENAME INDEX.
RenameReports00063(constraintUniqs, oldIdxname, newIdxname, tableName) ==
  \E j \in 1..Len(constraintUniqs) :
    /\ EqualFold(oldIdxname, oldIdxname)
    /\ isIndexNameViolate(newIdxname, tableName, constraintUniqs[j].Keys)

\* RuleSQLE00063, lines 92-132: the loop over the specs from position j.
RECURSIVE AlterSpecs00063(_, _, _, _, _)
AlterSpecs00063(ctx, rule, res, n, j) ==
  IF j > Len(n.Specs) THEN HandlerReturn(NilErr, res)
  ELSE
  LET spec == n.Specs[j]
  IN  IF spec.Tp = AlterTableAddConstraint
      THEN IF /\ spec.Constraint.Tp = ConstraintUniq
              /\ isIndexNameViolate(spec.Constraint.Name, n.table, spec.Constraint.Keys)
           THEN HandlerReturn(NilErr, AddResult(res, rule))
           ELSE AlterSpecs00063(ctx, rule, res, n, j + 1)
      ELSE IF spec.Tp = AlterTableRenameIndex
      THEN IF GetCreateTableStmt(ctx, n.table) # NilErr
           THEN HandlerReturn(NilErr, res)
           ELSE LET constraintUniqs ==
                      GetTableConstraints(CreateTableStmtOf(ctx, n.table).Constraints,
                                          {ConstraintUniq})
                IN  IF Len(constraintUniqs) = 0
                    THEN HandlerReturn(NilErr, res)
                    ELSE IF RenameReports00063(constraintUniqs, spec.FromKey,
                                               spec.ToKey, n.table)
                    THEN HandlerReturn(NilErr, AddResult(res, rule))
                    ELSE AlterSpecs00063(ctx, rule, res, n, j + 1)
      ELSE AlterSpecs00063(ctx, rule, res, n, j + 1)

RuleSQLE00063(ctx, rule, res, n) ==
  CASE n.kind = "AlterTableStmt" -> AlterSpecs00063(ctx, rule, res, n, 1)
    [] n.kind = "CreateIndexStmt" ->
         IF /\ n.KeyType = IndexKeyTypeUnique
            /\ isIndexNameViolate(n.IndexName, n.table, n.IndexPartSpecifications)
         THEN HandlerReturn(NilErr, AddResult(res, rule))
         ELSE HandlerReturn(NilErr, res)
    [] n.kind = "CreateTableStmt" ->
         LET constraints == GetTableConstraints(n.Constraints, {ConstraintUniq})
         IN  IF \E j \in 1..Len(constraints) :
                  isIndexNameViolate(constraints[j].Name, n.table, constraints[j].Keys)
             THEN HandlerReturn(NilErr, AddResult(res, rule))
             ELSE HandlerReturn(NilErr, res)
    [] OTHER -> HandlerReturn(NilErr, res)

\* Handlers of the two rules that carry the already-executed flags: they
\* report every statement.
RuleReportAll(ctx, rule, res, n) == HandlerReturn(NilErr, AddResult(res, rule))

(***************************************************************************)
(* Handler registry (rulepkg.GetRuleHandlerFromAllRules).                  *)
(***************************************************************************)
Handler(func, allowOffline, onlyNotExecuted, notSupportExecuted) ==
  [ok |-> TRUE, Func |-> func, AllowOffline |-> allowOffline,
   OnlyAuditNotExecutedSQL |-> onlyNotExecuted,
   NotSupportExecutedSQLAuditStmts |-> notSupportExecuted]

GetRuleHandlerFromAllRules(name) ==
  CASE name = SQLE00004 -> Handler("RuleSQLE00004", TRUE, FALSE, {})
    [] name = SQLE00041 -> Handler("RuleSQLE00041", FALSE, FALSE, {})
    [] name = SQLE00063 -> Handler("RuleSQLE00063", FALSE, FALSE, {})
    [] name = RuleNotExecutedOnly -> Handler("RuleReportAll", TRUE, TRUE, {})
    [] name = RuleNoExecutedAlter -> Handler("RuleReportAll", TRUE, FALSE, {"AlterTableStmt"})
    [] name \in {ConfigDDLOSCMinSize, ConfigDDLGhostMinSize, ConfigOptimizeIndexEnabled,
                 ConfigDMLExplainPreCheckEnable, ConfigSQLIsExecuted} ->
         Handler("nil", TRUE, FALSE, {})
    [] OTHER -> [ok |-> FALSE, Func |-> "nil", AllowOffline |-> FALSE,
                 OnlyAuditNotExecutedSQL |-> FALSE, NotSupportExecutedSQLAuditStmts |-> {}]

IsAllowOfflineRule(handler, n) == handler.AllowOffline

IsDisableExecutedSQLRule(handler, n) == n.kind \in handler.NotSupportExecutedSQLAuditStmts

CallFunc(handler, ctx, rule, res, n) ==
  CASE handler.Func = "RuleSQLE00004" -> RuleSQLE00004(ctx, rule, res, n)
    [] handler.Func = "RuleSQLE00041" -> RuleSQLE00041(ctx, rule, res, n)
    [] handler.Func = "RuleSQLE00063" -> RuleSQLE00063(ctx, rule, res, n)
    [] OTHER -> RuleReportAll(ctx, rule, res, n)

(***************************************************************************)
(* Construction.                                                           *)
(***************************************************************************)
HasRule(rs, name) == \E j \in 1..Len(rs) : rs[j].Name = name

applyConfig(cfgRules) ==
  [DDLOSCMinSize |-> IF HasRule(cfgRules, ConfigDDLOSCMinSize) THEN OSCMinSizeParam ELSE NoMinSize,
   DDLGhostMinSize |-> IF HasRule(cfgRules, ConfigDDLGhostMinSize) THEN GhostMinSizeParam ELSE NoMinSize,
   optimizeIndexEnabled |-> HasRule(cfgRules, ConfigOptimizeIndexEnabled),
   dmlExplainPreCheckEnable |-> HasRule(cfgRules, ConfigDMLExplainPreCheckEnable),
   isExecutedSQL |-> HasRule(cfgRules, ConfigSQLIsExecuted)]

NoCnf == applyConfig(<<>>)

\* A table size in MB: whole MBs and, possibly, half a MB more.
Size(w, h) == [whole |-> w, half |-> h]

ZeroSize == Size(0, FALSE)

NoConns == [c \in 1..MaxConns |-> [open |-> FALSE, closes |-> 0]]

\* No driver operation other than construction has been called.
NoOperation ==
  /\ dbConn = 0
  /\ conns = NoConns
  /\ established = 0
  /\ cancelled = FALSE
  /\ op = "none"
  /\ queries = <<>>
  /\ qi = 0
  /\ execResults = <<>>
  /\ execRet = [results |-> <<>>, err |-> NilErr]
  /\ query = ""
  /\ useGhost = FALSE
  /\ tableSize = ZeroSize
  /\ toolCalls = <<>>
  /\ dbExecs = <<>>

NilStmt == [type |-> "nil"]

\* EstimateSQLAffectRows has not returned.
NoReply == [Count |-> 0, ErrMessage |-> "", err |-> NilErr]

NilInput == [Ctx |-> "nil", Rule |-> NilRule, Res |-> <<>>, Node |-> NilNode]

\* No handler has been called on its own.
NoUtilCall ==
  /\ uPc = "off"
  /\ isIndexArgs = [columnMap |-> {}, constraints |-> <<>>]
  /\ isIndexRet = FALSE

NoHandlerCall ==
  /\ hPc = "off"
  /\ input = NilInput
  /\ hErr = NilErr
  /\ NoUtilCall

\* GetAffectedRowNum has not been called.
NoEstimate ==
  /\ sqlIn = NilStmt
  /\ epRecords = <<>>
  /\ row = <<>>
  /\ reply = NoReply
  /\ estPc = "off"
  /\ originSql = NilStmt
  /\ cannotConvert = FALSE
  /\ newNode = NilStmt
  /\ affectedRowSql = <<>>
  /\ estRet = [count |-> 0, err |-> NilErr]
  /\ estLog = <<>>

Init ==
  /\ pc = "new"
  /\ rules = <<>>
  /\ cnf = NoCnf
  /\ isOfflineAudit = FALSE
  /\ isConnected = FALSE
  /\ inst = "nil"
  /\ Ctx = NewContext(FALSE)
  /\ result = NewAuditResults
  /\ HasInvalidSql = FALSE
  /\ sqls = <<>>
  /\ k = 0
  /\ results = <<>>
  /\ ret = [results |-> <<>>, err |-> NilErr]
  /\ node = NilNode
  /\ ruleIdx = 0
  /\ ghostRule = NilRule
  /\ auditErr = NilErr
  /\ stages = <<>>
  /\ invoked = <<>>
  /\ failed = {}
  /\ dryRuns = <<>>
  /\ ctxAtStart = NewContext(FALSE)
  /\ audited = <<>>
  /\ checkErr = NilErr
  /\ resultId = 0
  /\ resultIds = <<>>
  /\ oscErr = NilErr
  /\ oscCommandLine = FALSE
  /\ NoOperation
  /\ NoEstimate
  /\ NoHandlerCall

initializeInspectWithConn(cfgRules, dsn) ==
  /\ isConnected' = TRUE
  /\ inst' = dsn
  /\ Ctx' = NewContext(TRUE)
  /\ rules' = cfgRules
  /\ result' = NewAuditResults
  /\ isOfflineAudit' = (dsn = "nil")
  /\ cnf' = applyConfig(cfgRules)
  /\ pc' = "idle"
  /\ UNCHANGED <<HasInvalidSql, callVars, auditVars, histVars>>
  /\ dbConn' = 1
  /\ conns' = [conns EXCEPT ![1].open = TRUE]
  /\ UNCHANGED <<established, cancelled, op, execVars, execHist, estVars, objVars, ruleVars>>

initializeInspectWithoutConn(cfgRules, dsn) ==
  /\ Ctx' = NewContext(FALSE)
  /\ rules' = cfgRules
  /\ result' = NewAuditResults
  /\ isOfflineAudit' = (dsn = "nil")
  /\ cnf' = applyConfig(cfgRules)
  /\ pc' = "idle"
  /\ UNCHANGED <<isConnected, inst, HasInvalidSql, callVars, auditVars, histVars>>
  /\ UNCHANGED <<opsVars, estVars, objVars, ruleVars>>

ConstructionFails(how) ==
  /\ pc' = how
  /\ UNCHANGED <<driverVars, Ctx, result, callVars, auditVars, histVars>>
  /\ UNCHANGED <<opsVars, estVars, objVars, ruleVars>>

\* conn = TRUE: a non-nil executor is passed in.
NewInspectWithExecutor ==
  /\ pc = "new"
  /\ \E cfgRules \in RuleLists, dsn \in {"nil", "dsn"}, conn \in BOOLEAN :
       IF conn
       THEN IF dsn = "nil"
            THEN ConstructionFails("panic")  \* cfg.DSN.DatabaseName on a nil DSN
            ELSE initializeInspectWithConn(cfgRules, dsn)
       ELSE initializeInspectWithoutConn(cfgRules, dsn)

\* connects = FALSE: executor.NewExecutor fails.
NewInspect ==
  /\ pc = "new"
  /\ \E cfgRules \in RuleLists, dsn \in {"nil", "dsn"}, connects \in BOOLEAN :
       IF dsn # "nil"
       THEN IF connects
            THEN initializeInspectWithConn(cfgRules, dsn)
            ELSE ConstructionFails("no driver")
       ELSE initializeInspectWithoutConn(cfgRules, dsn)


(***************************************************************************)
(* Audit: the batch loop.                                                  *)
(***************************************************************************)
Batches == SeqsUpTo(SQLTexts, MaxBatch)

\* Variant of Audit: only the first string of the batch is checked before
\* the loop.
Audit_ChecksFirstOnly ==
  /\ pc = "idle"
  /\ \E batch \in Batches :
       /\ sqls' = batch
       /\ IF \E j \in 1..Len(batch) : j = 1 /\ batch[j] = EmptySQL
          THEN /\ ret' = [results |-> <<>>, err |-> "has empty sql"]
               /\ pc' = "returned"
               /\ UNCHANGED <<k, results, resultIds>>
          ELSE /\ results' = <<>>
               /\ resultIds' = <<>>
               /\ k' = 1
               /\ pc' = "loop"
               /\ UNCHANGED ret
  /\ UNCHANGED <<driverVars, Ctx, result, auditVars, histVars>>
  /\ UNCHANGED <<opsVars, estVars, checkErr, resultId, ruleVars, oscVars>>

\* Audit, lines 322-327: the check for empty strings and the results slice.
Audit ==
  /\ pc = "idle"
  /\ \E batch \in Batches :
       /\ sqls' = batch
       /\ IF \E j \in 1..Len(batch) : batch[j] = EmptySQL
          THEN /\ ret' = [results |-> <<>>, err |-> "has empty sql"]
               /\ pc' = "returned"
               /\ UNCHANGED <<k, results, resultIds>>
          ELSE /\ results' = <<>>
               /\ resultIds' = <<>>
               /\ k' = 1
               /\ pc' = "loop"
               /\ UNCHANGED ret
  /\ UNCHANGED <<driverVars, Ctx, result, auditVars, histVars>>
  /\ UNCHANGED <<opsVars, estVars, checkErr, resultId, ruleVars, oscVars>>

\* Variant of AuditNext: audit empties the result set it has instead of
\* making a new one.
AuditNext_ReusesResult ==
  /\ pc = "loop"
  /\ IF k <= Len(sqls)
     THEN /\ result' = NewAuditResults
          /\ resultId' = resultId
          /\ pc' = "parse"
          /\ node' = NilNode
          /\ ruleIdx' = 0
          /\ ghostRule' = NilRule
          /\ auditErr' = NilErr
          /\ stages' = <<>>
          /\ invoked' = <<>>
          /\ failed' = {}
          /\ dryRuns' = <<>>
          /\ toolCalls' = <<>>
          /\ ctxAtStart' = Ctx
          /\ audited' = Append(audited, k)
          /\ UNCHANGED ret
     ELSE /\ ret' = [results |-> results, err |-> NilErr]
          /\ pc' = "returned"
          /\ UNCHANGED <<result, resultId, auditVars, histVars, toolCalls>>
  /\ UNCHANGED <<driverVars, Ctx, sqls, k, results, resultIds, checkErr, ruleVars, oscVars>>
  /\ UNCHANGED <<connVars, cancelled, op, execVars, dbExecs, estVars>>

\* Audit, lines 328-329, and audit, line 339: the next statement, if any,
\* is handed to audit, which starts with a fresh result set.
AuditNext ==
  /\ pc = "loop"
  /\ IF k <= Len(sqls)
     THEN /\ result' = NewAuditResults
          /\ resultId' = resultId + 1
          /\ pc' = "parse"
          /\ node' = NilNode
          /\ ruleIdx' = 0
          /\ ghostRule' = NilRule
          /\ auditErr' = NilErr
          /\ stages' = <<>>
          /\ invoked' = <<>>
          /\ failed' = {}
          /\ dryRuns' = <<>>
          /\ toolCalls' = <<>>
          /\ ctxAtStart' = Ctx
          /\ audited' = Append(audited, k)
          /\ UNCHANGED ret
     ELSE /\ ret' = [results |-> results, err |-> NilErr]
          /\ pc' = "returned"
          /\ UNCHANGED <<result, resultId, auditVars, histVars, toolCalls>>
  /\ UNCHANGED <<driverVars, Ctx, sqls, k, results, resultIds, checkErr, ruleVars, oscVars>>
  /\ UNCHANGED <<connVars, cancelled, op, execVars, dbExecs, estVars>>

\* Variant of AuditCollect: a failed statement is left out and the loop goes on.
AuditCollect_ContinuesOnError ==
  /\ pc = "audit returned"
  /\ results' = IF auditErr # NilErr THEN results ELSE Append(results, result)
  /\ resultIds' = IF auditErr # NilErr THEN resultIds ELSE Append(resultIds, resultId)
  /\ k' = k + 1
  /\ pc' = "loop"
  /\ UNCHANGED <<ret, driverVars, Ctx, result, sqls, auditVars, histVars>>
  /\ UNCHANGED <<opsVars, estVars, checkErr, resultId, ruleVars>>
  /\ oscErr' = NilErr
  /\ oscCommandLine' = FALSE

\* Audit, lines 330-333: the return of audit.
AuditCollect ==
  /\ pc = "audit returned"
  /\ IF auditErr # NilErr
     THEN /\ ret' = [results |-> <<>>, err |-> auditErr]
          /\ pc' = "returned"
          /\ UNCHANGED <<k, results, resultIds>>
     ELSE /\ results' = Append(results, result)
          /\ resultIds' = Append(resultIds, resultId)
          /\ k' = k + 1
          /\ pc' = "loop"
          /\ UNCHANGED ret
  /\ UNCHANGED <<driverVars, Ctx, result, sqls, auditVars, histVars>>
  /\ UNCHANGED <<opsVars, estVars, checkErr, resultId, ruleVars>>
  /\ oscErr' = NilErr
  /\ oscCommandLine' = FALSE

(***************************************************************************)
(* audit: the stages for one statement.                                    *)
(***************************************************************************)
ReturnError(err) ==
  /\ auditErr' = err
  /\ pc' = "audit returned"

\* audit, lines 341-344.
Parse ==
  /\ pc = "parse"
  /\ stages' = Append(stages, "Parse")
  /\ IF ParseSql(sqls[k]).err # NilErr
     THEN /\ ReturnError(ParseSql(sqls[k]).err)
          /\ UNCHANGED node
     ELSE /\ node' = ParseSql(sqls[k]).node
          /\ pc' = "prevalidate"
          /\ UNCHANGED auditErr
  /\ UNCHANGED <<driverVars, Ctx, result, callVars, ruleIdx, ghostRule,
                 invoked, failed, dryRuns, ctxAtStart, audited>>
  /\ UNCHANGED <<opsVars, estVars, objVars, ruleVars>>

\* Outcomes of CheckInvalid / CheckInvalidOffline and of CheckExplain.
CheckInvalidOutcomes == {NilErr, "ParseShowCreateTableContentErr", "invalid sql"}
CheckExplainOutcomes == {NilErr, "explain failed"}

IsParseShowCreateTableContentErr(err) == err = "ParseShowCreateTableContentErr"

\* Variant of PreValidate: an unparsable SHOW CREATE TABLE content aborts
\* the audit like every other error.
PreValidate_AbortsOnParseDDLError ==
  /\ pc = "prevalidate"
  /\ stages' = Append(stages, "PreValidate")
  /\ \E err \in CheckInvalidOutcomes, explainErr \in CheckExplainOutcomes :
       LET res == IF IsParseShowCreateTableContentErr(err)
                  THEN Add(result, RuleLevelWarn, PreCheckErr)
                  ELSE result
           explains == ~HasResult(res) /\ cnf.dmlExplainPreCheckEnable
       IN  /\ checkErr' = err
           /\ explains \/ explainErr = NilErr
           /\ IF err # NilErr
              THEN /\ explainErr = NilErr
                   /\ ReturnError(err)
                   /\ UNCHANGED <<result, HasInvalidSql, ruleIdx>>
              ELSE IF explains /\ explainErr # NilErr
              THEN /\ ReturnError(explainErr)
                   /\ result' = res
                   /\ UNCHANGED <<HasInvalidSql, ruleIdx>>
              ELSE /\ result' = res
                   /\ HasInvalidSql' = (HasInvalidSql \/ HasResult(res))
                   /\ ruleIdx' = 1
                   /\ pc' = "dispatch"
                   /\ UNCHANGED auditErr
  /\ UNCHANGED <<rules, cnf, isOfflineAudit, isConnected, inst, Ctx, callVars,
                 node, ghostRule, invoked, failed, dryRuns, ctxAtStart, audited>>
  /\ UNCHANGED <<opsVars, estVars, resultId, resultIds, ruleVars, oscVars>>

\* audit, lines 346-372.
PreValidate ==
  /\ pc = "prevalidate"
  /\ stages' = Append(stages, "PreValidate")
  /\ \E err \in CheckInvalidOutcomes, explainErr \in CheckExplainOutcomes :
       LET res == IF IsParseShowCreateTableContentErr(err)
                  THEN Add(result, RuleLevelWarn, PreCheckErr)
                  ELSE result
           explains == ~HasResult(res) /\ cnf.dmlExplainPreCheckEnable
       IN  /\ checkErr' = err
           /\ explains \/ explainErr = NilErr
           /\ IF err # NilErr /\ ~IsParseShowCreateTableContentErr(err)
              THEN /\ explainErr = NilErr
                   /\ ReturnError(err)
                   /\ UNCHANGED <<result, HasInvalidSql, ruleIdx>>
              ELSE IF explains /\ explainErr # NilErr
              THEN /\ ReturnError(explainErr)
                   /\ result' = res
                   /\ UNCHANGED <<HasInvalidSql, ruleIdx>>
              ELSE /\ result' = res
                   /\ HasInvalidSql' = (HasInvalidSql \/ HasResult(res))
                   /\ ruleIdx' = 1
                   /\ pc' = "dispatch"
                   /\ UNCHANGED auditErr
  /\ UNCHANGED <<rules, cnf, isOfflineAudit, isConnected, inst, Ctx, callVars,
                 node, ghostRule, invoked, failed, dryRuns, ctxAtStart, audited>>
  /\ UNCHANGED <<opsVars, estVars, resultId, resultIds, ruleVars, oscVars>>

\* Variant of Skipped: the statement types a handler does not support for
\* already-executed SQL are not looked at.
Skipped_IgnoresDisabledStmts(j) ==
  LET handler == GetRuleHandlerFromAllRules(rules[j].Name)
  IN  \/ ~handler.ok
      \/ handler.Func = "nil"
      \/ isOfflineAudit /\ ~IsAllowOfflineRule(handler, node)
      \/ cnf.isExecutedSQL /\ handler.OnlyAuditNotExecutedSQL

\* audit, lines 378-392: the rule at position j is skipped.
Skipped(j) ==
  LET handler == GetRuleHandlerFromAllRules(rules[j].Name)
  IN  \/ ~handler.ok
      \/ handler.Func = "nil"
      \/ isOfflineAudit /\ ~IsAllowOfflineRule(handler, node)
      \/ cnf.isExecutedSQL /\ handler.OnlyAuditNotExecutedSQL
      \/ cnf.isExecutedSQL /\ IsDisableExecutedSQLRule(handler, node)

\* Variant of DispatchRule: the loop is left at the first handler error.
DispatchRule_BreaksOnError ==
  /\ pc = "dispatch"
  /\ ruleIdx <= Len(rules)
  /\ LET pos == ruleIdx
         rule == rules[pos]
         handler == GetRuleHandlerFromAllRules(rule.Name)
         out == CallFunc(handler, Ctx, rule, result, node)
     IN  /\ ghostRule' = IF rule.Name = ConfigDDLGhostMinSize THEN rule.Name ELSE ghostRule
         /\ IF Skipped(pos)
            THEN /\ ruleIdx' = ruleIdx + 1
                 /\ UNCHANGED <<result, invoked, failed>>
            ELSE /\ invoked' = Append(invoked, rule.Name)
                 /\ IF out.err # NilErr
                    THEN /\ result' = AddResultWithError(out.res, rule.Level, rule.Name, TRUE)
                         /\ failed' = failed \cup {rule.Name}
                         /\ ruleIdx' = Len(rules) + 1
                    ELSE /\ result' = out.res
                         /\ ruleIdx' = ruleIdx + 1
                         /\ UNCHANGED failed
  /\ UNCHANGED <<pc, driverVars, Ctx, callVars, node, auditErr,
                 stages, dryRuns, ctxAtStart, audited>>
  /\ UNCHANGED <<opsVars, estVars, objVars, ruleVars>>

\* Variant of DispatchRule: a handler error is reported at error level.
DispatchRule_ReportsErrorLevel ==
  /\ pc = "dispatch"
  /\ ruleIdx <= Len(rules)
  /\ LET pos == ruleIdx
         rule == rules[pos]
         handler == GetRuleHandlerFromAllRules(rule.Name)
         out == CallFunc(handler, Ctx, rule, result, node)
     IN  /\ ghostRule' = IF rule.Name = ConfigDDLGhostMinSize THEN rule.Name ELSE ghostRule
         /\ IF Skipped(pos)
            THEN /\ ruleIdx' = ruleIdx + 1
                 /\ UNCHANGED <<result, invoked, failed>>
            ELSE /\ invoked' = Append(invoked, rule.Name)
                 /\ IF out.err # NilErr
                    THEN /\ result' = AddResultWithError(out.res, RuleLevelError, rule.Name, TRUE)
                         /\ failed' = failed \cup {rule.Name}
                         /\ ruleIdx' = ruleIdx + 1
                    ELSE /\ result' = out.res
                         /\ ruleIdx' = ruleIdx + 1
                         /\ UNCHANGED failed
  /\ UNCHANGED <<pc, driverVars, Ctx, callVars, node, auditErr,
                 stages, dryRuns, ctxAtStart, audited>>
  /\ UNCHANGED <<opsVars, estVars, objVars, ruleVars>>

\* Variant of DispatchRule: the rule list is walked from its end.
DispatchRule_WalksBackwards ==
  /\ pc = "dispatch"
  /\ ruleIdx <= Len(rules)
  /\ LET pos == Len(rules) + 1 - ruleIdx
         rule == rules[pos]
         handler == GetRuleHandlerFromAllRules(rule.Name)
         out == CallFunc(handler, Ctx, rule, result, node)
     IN  /\ ghostRule' = IF rule.Name = ConfigDDLGhostMinSize THEN rule.Name ELSE ghostRule
         /\ IF Skipped(pos)
            THEN /\ ruleIdx' = ruleIdx + 1
                 /\ UNCHANGED <<result, invoked, failed>>
            ELSE /\ invoked' = Append(invoked, rule.Name)
                 /\ IF out.err # NilErr
                    THEN /\ result' = AddResultWithError(out.res, rule.Level, rule.Name, TRUE)
                         /\ failed' = failed \cup {rule.Name}
                         /\ ruleIdx' = ruleIdx + 1
                    ELSE /\ result' = out.res
                         /\ ruleIdx' = ruleIdx + 1
                         /\ UNCHANGED failed
  /\ UNCHANGED <<pc, driverVars, Ctx, callVars, node, auditErr,
                 stages, dryRuns, ctxAtStart, audited>>
  /\ UNCHANGED <<opsVars, estVars, objVars, ruleVars>>

\* audit, lines 373-405: one iteration of the loop over i.rules.
DispatchRule ==
  /\ pc = "dispatch"
  /\ ruleIdx <= Len(rules)
  /\ LET rule == rules[ruleIdx]
         handler == GetRuleHandlerFromAllRules(rule.Name)
         out == CallFunc(handler, Ctx, rule, result, node)
     IN  /\ ghostRule' = IF rule.Name = ConfigDDLGhostMinSize THEN rule.Name ELSE ghostRule
         /\ IF Skipped(ruleIdx)
            THEN UNCHANGED <<result, invoked, failed>>
            ELSE /\ invoked' = Append(invoked, rule.Name)
                 /\ IF out.err # NilErr
                    THEN /\ result' = AddResultWithError(out.res, rule.Level, rule.Name, TRUE)
                         /\ failed' = failed \cup {rule.Name}
                    ELSE /\ result' = out.res
                         /\ UNCHANGED failed
  /\ ruleIdx' = ruleIdx + 1
  /\ UNCHANGED <<pc, driverVars, Ctx, callVars, node, auditErr,
                 stages, dryRuns, ctxAtStart, audited>>
  /\ UNCHANGED <<opsVars, estVars, objVars, ruleVars>>

\* Variant of DispatchDone: the index-optimization pass is passed over.
DispatchDone_SkipsOptimization ==
  /\ pc = "dispatch"
  /\ ruleIdx > Len(rules)
  /\ stages' = Append(stages, "RuleDispatch")
  /\ pc' = "ghost"
  /\ UNCHANGED <<driverVars, Ctx, result, callVars, auditVars,
                 invoked, failed, dryRuns, ctxAtStart, audited>>
  /\ UNCHANGED <<opsVars, estVars, objVars, ruleVars>>

\* audit, line 373: the loop over i.rules is exhausted.
DispatchDone ==
  /\ pc = "dispatch"
  /\ ruleIdx > Len(rules)
  /\ stages' = Append(stages, "RuleDispatch")
  /\ pc' = "optimize"
  /\ UNCHANGED <<driverVars, Ctx, result, callVars, auditVars,
                 invoked, failed, dryRuns, ctxAtStart, audited>>
  /\ UNCHANGED <<opsVars, estVars, objVars, ruleVars>>


\* Number of advices optimize returns.
AdviceCounts == {0, 1}

RECURSIVE AddAdvices(_, _)
AddAdvices(res, n) ==
  IF n = 0 THEN res
  ELSE AddAdvices(Add(res, RuleLevelNotice, ConfigOptimizeIndexEnabled), n - 1)

\* audit, lines 407-428.
IndexOptimizationPass ==
  /\ pc = "optimize"
  /\ IF cnf.optimizeIndexEnabled
     THEN /\ \E n \in AdviceCounts : result' = AddAdvices(result, n)
          /\ stages' = Append(stages, "IndexOptimizationPass")
     ELSE UNCHANGED <<result, stages>>
  /\ pc' = "ghost"
  /\ UNCHANGED <<driverVars, Ctx, callVars, auditVars,
                 invoked, failed, dryRuns, ctxAtStart, audited>>
  /\ UNCHANGED <<opsVars, estVars, objVars, ruleVars>>

\* One invocation of the online-DDL tool: its mode and its outcome.
ToolCall(dryRun, ok) == [dryRun |-> dryRun, ok |-> ok]

\* Outcomes of Ctx.GetTableSize: without an executor the size is unknown
\* and reported as 0.  The size is a number of MB that need not be whole.
TableSizeOutcomes(ctx) ==
  IF ctx.hasExecutor
  THEN {[err |-> NilErr, size |-> Size(w, h)] : w \in 0..MaxSize, h \in BOOLEAN} \cup
       {[err |-> "show table status failed", size |-> ZeroSize]}
  ELSE {[err |-> NilErr, size |-> ZeroSize]}

\* The conversion int64(tableSize) of line 240: the fraction is dropped.
Int64(size) == size.whole

\* onlineddlWithGhost, lines 220-241, for a statement that parses to n and
\* the outcome ts of GetTableSize.
onlineddlWithGhost(c, n, ts) ==
  IF c.DDLGhostMinSize = NoMinSize THEN [useGhost |-> FALSE, err |-> NilErr]
  ELSE IF n.kind # "AlterTableStmt" THEN [useGhost |-> FALSE, err |-> NilErr]
  ELSE IF ts.err # NilErr THEN [useGhost |-> FALSE, err |-> "get table size"]
  ELSE [useGhost |-> Int64(ts.size) > c.DDLGhostMinSize, err |-> NilErr]

\* The level of the rule that ghostRule points to.
LevelOf(name) ==
  LET j == CHOOSE j \in 1..Len(rules) : rules[j].Name = name
  IN  rules[j].Level

\* Variant of OnlineDDLDecision: a failed dry run ends the audit with the
\* error of the tool.
OnlineDDLDecision_AbortsOnFailedDryRun ==
  /\ pc = "ghost"
  /\ stages' = Append(stages, "OnlineDDLDecision")
  /\ \E ts \in TableSizeOutcomes(Ctx), dryRunOK \in BOOLEAN :
       LET d == onlineddlWithGhost(cnf, node, ts)
       IN  /\ (cnf.DDLGhostMinSize = NoMinSize \/ node.kind # "AlterTableStmt")
                 => ts = [err |-> NilErr, size |-> ZeroSize]
           /\ ~d.useGhost => dryRunOK
           /\ toolCalls' = IF d.err = NilErr /\ d.useGhost
                           THEN Append(toolCalls, ToolCall(TRUE, dryRunOK))
                           ELSE toolCalls
           /\ IF d.err # NilErr
              THEN /\ ReturnError("check whether use ghost or not")
                   /\ UNCHANGED <<result, dryRuns>>
              ELSE IF ~d.useGhost
              THEN /\ pc' = "osc"
                   /\ UNCHANGED <<result, dryRuns, auditErr>>
              ELSE IF ghostRule = NilRule
              THEN /\ pc' = "panic"
                   /\ dryRuns' = Append(dryRuns, dryRunOK)
                   /\ UNCHANGED <<result, auditErr>>
              ELSE /\ dryRuns' = Append(dryRuns, dryRunOK)
                   /\ IF dryRunOK
                      THEN /\ result' = Add(result, LevelOf(ghostRule), ghostRule)
                           /\ pc' = "osc"
                           /\ UNCHANGED auditErr
                      ELSE /\ ReturnError("dry-run gh-ost")
                           /\ UNCHANGED result
  /\ UNCHANGED <<driverVars, Ctx, callVars, node, ruleIdx, ghostRule,
                 invoked, failed, ctxAtStart, audited>>
  /\ UNCHANGED <<connVars, cancelled, op, execVars, dbExecs, estVars, objVars, ruleVars>>

\* audit, lines 430-442.  dryRunOK is the outcome of executeByGhost.
OnlineDDLDecision ==
  /\ pc = "ghost"
  /\ stages' = Append(stages, "OnlineDDLDecision")
  /\ \E ts \in TableSizeOutcomes(Ctx), dryRunOK \in BOOLEAN :
       LET d == onlineddlWithGhost(cnf, node, ts)
       IN  /\ (cnf.DDLGhostMinSize = NoMinSize \/ node.kind # "AlterTableStmt")
                 => ts = [err |-> NilErr, size |-> ZeroSize]
           /\ ~d.useGhost => dryRunOK
           /\ toolCalls' = IF d.err = NilErr /\ d.useGhost
                           THEN Append(toolCalls, ToolCall(TRUE, dryRunOK))
                           ELSE toolCalls
           /\ IF d.err # NilErr
              THEN /\ ReturnError("check whether use ghost or not")
                   /\ UNCHANGED <<result, dryRuns>>
              ELSE IF ~d.useGhost
              THEN /\ pc' = "osc"
                   /\ UNCHANGED <<result, dryRuns, auditErr>>
              ELSE IF ghostRule = NilRule
              THEN /\ pc' = "panic"  \* ghostRule.Name on a nil rule
                   /\ dryRuns' = Append(dryRuns, dryRunOK)
                   /\ UNCHANGED <<result, auditErr>>
              ELSE /\ dryRuns' = Append(dryRuns, dryRunOK)
                   /\ result' = IF dryRunOK
                                THEN Add(result, LevelOf(ghostRule), ghostRule)
                                ELSE Add(result, RuleLevelError, ghostRule)
                   /\ pc' = "osc"
                   /\ UNCHANGED auditErr
  /\ UNCHANGED <<driverVars, Ctx, callVars, node, ruleIdx, ghostRule,
                 invoked, failed, ctxAtStart, audited>>
  /\ UNCHANGED <<connVars, cancelled, op, execVars, dbExecs, estVars, objVars, ruleVars>>

\* Outcomes of generateOSCCommandLine: no command line without a configured
\* minimum size or for a statement other than ALTER TABLE.
OSCOutcomes(c, n) ==
  IF c.DDLOSCMinSize = NoMinSize \/ n.kind # "AlterTableStmt"
  THEN {[cmd |-> FALSE, err |-> NilErr]}
  ELSE {[cmd |-> FALSE, err |-> NilErr], [cmd |-> TRUE, err |-> NilErr],
        [cmd |-> FALSE, err |-> "ParseShowCreateTableContentErr"],
        [cmd |-> FALSE, err |-> "generate osc failed"]}

\* Variant of RollbackAnnotation: the context is updated before the OSC
\* command line is generated.
RollbackAnnotation_UpdatesContextFirst ==
  /\ pc = "osc"
  /\ stages' = Append(stages, "RollbackAnnotation")
  /\ Ctx' = IF cnf.isExecutedSQL THEN Ctx ELSE UpdateContext(Ctx, node)
  /\ \E osc \in OSCOutcomes(cnf, node) :
       /\ oscErr' = osc.err
       /\ oscCommandLine' = osc.cmd
       /\ IF osc.err # NilErr /\ ~IsParseShowCreateTableContentErr(osc.err)
          THEN /\ ReturnError(osc.err)
               /\ UNCHANGED result
          ELSE /\ result' = IF osc.cmd THEN Add(result, RuleLevelNotice, ConfigDDLOSCMinSize)
                            ELSE result
               /\ auditErr' = NilErr
               /\ pc' = "audit returned"
  /\ UNCHANGED <<driverVars, callVars, node, ruleIdx, ghostRule,
                 invoked, failed, dryRuns, ctxAtStart, audited>>
  /\ UNCHANGED <<opsVars, estVars, checkErr, resultId, resultIds, ruleVars>>

\* Variant of RollbackAnnotation: an unparsable SHOW CREATE TABLE content
\* aborts the audit like every other error.
RollbackAnnotation_AbortsOnParseDDLError ==
  /\ pc = "osc"
  /\ stages' = Append(stages, "RollbackAnnotation")
  /\ \E osc \in OSCOutcomes(cnf, node) :
       /\ oscErr' = osc.err
       /\ oscCommandLine' = osc.cmd
       /\ IF osc.err # NilErr
          THEN /\ ReturnError(osc.err)
               /\ UNCHANGED result
          ELSE /\ result' = IF osc.cmd THEN Add(result, RuleLevelNotice, ConfigDDLOSCMinSize)
                            ELSE result
               /\ pc' = "update"
               /\ UNCHANGED auditErr
  /\ UNCHANGED <<driverVars, Ctx, callVars, node, ruleIdx, ghostRule,
                 invoked, failed, dryRuns, ctxAtStart, audited>>
  /\ UNCHANGED <<opsVars, estVars, checkErr, resultId, resultIds, ruleVars>>

\* audit, lines 444-453.
RollbackAnnotation ==
  /\ pc = "osc"
  /\ stages' = Append(stages, "RollbackAnnotation")
  /\ \E osc \in OSCOutcomes(cnf, node) :
       /\ oscErr' = osc.err
       /\ oscCommandLine' = osc.cmd
       /\ IF osc.err # NilErr /\ ~IsParseShowCreateTableContentErr(osc.err)
          THEN /\ ReturnError(osc.err)
               /\ UNCHANGED result
          ELSE /\ result' = IF osc.cmd THEN Add(result, RuleLevelNotice, ConfigDDLOSCMinSize)
                            ELSE result
               /\ pc' = "update"
               /\ UNCHANGED auditErr
  /\ UNCHANGED <<driverVars, Ctx, callVars, node, ruleIdx, ghostRule,
                 invoked, failed, dryRuns, ctxAtStart, audited>>
  /\ UNCHANGED <<opsVars, estVars, checkErr, resultId, resultIds, ruleVars>>

\* Variant of ContextUpdate: a statement with findings is not applied.
ContextUpdate_SkipsReported ==
  /\ pc = "update"
  /\ IF ~cnf.isExecutedSQL /\ ~HasResult(result)
     THEN /\ Ctx' = UpdateContext(Ctx, node)
          /\ stages' = Append(stages, "ContextUpdate")
     ELSE UNCHANGED <<Ctx, stages>>
  /\ auditErr' = NilErr
  /\ pc' = "audit returned"
  /\ UNCHANGED <<driverVars, result, callVars, node, ruleIdx, ghostRule,
                 invoked, failed, dryRuns, ctxAtStart, audited>>
  /\ UNCHANGED <<opsVars, estVars, objVars, ruleVars>>

\* Variant of ContextUpdate: the context is updated in every mode.
ContextUpdate_InEveryMode ==
  /\ pc = "update"
  /\ Ctx' = UpdateContext(Ctx, node)
  /\ stages' = Append(stages, "ContextUpdate")
  /\ auditErr' = NilErr
  /\ pc' = "audit returned"
  /\ UNCHANGED <<driverVars, result, callVars, node, ruleIdx, ghostRule,
                 invoked, failed, dryRuns, ctxAtStart, audited>>
  /\ UNCHANGED <<opsVars, estVars, objVars, ruleVars>>

\* audit, lines 455-459.
ContextUpdate ==
  /\ pc = "update"
  /\ IF ~cnf.isExecutedSQL
     THEN /\ Ctx' = UpdateContext(Ctx, node)
          /\ stages' = Append(stages, "ContextUpdate")
     ELSE UNCHANGED <<Ctx, stages>>
  /\ auditErr' = NilErr
  /\ pc' = "audit returned"
  /\ UNCHANGED <<driverVars, result, callVars, node, ruleIdx, ghostRule,
                 invoked, failed, dryRuns, ctxAtStart, audited>>
  /\ UNCHANGED <<opsVars, estVars, objVars, ruleVars>>

(***************************************************************************)
(* Connections.  A connection is known by its id; conns records for each   *)
(* id whether it is open and how often Db.Close was called on it.          *)
(***************************************************************************)
Created(c) == conns[c].open \/ conns[c].closes > 0

FreshConns == {c \in 1..MaxConns : ~Created(c) /\ \A d \in 1..(c - 1) : Created(d)}

\* Outcomes of executor.NewExecutor for i.inst: a new connection or an
\* error; with a nil DSN it cannot succeed.
NewExecutorOutcomes ==
  IF inst = "nil"
  THEN {[conn |-> 0, err |-> "connect failed"], [conn |-> 0, err |-> "panic"]}
  ELSE {[conn |-> c, err |-> NilErr] : c \in FreshConns} \cup
       {[conn |-> 0, err |-> "connect failed"]}

\* getDbConn, lines 552-563: the outcomes (conn, err), and the fields it
\* leaves behind for an outcome o.
getDbConnOutcomes ==
  IF isConnected THEN {[conn |-> dbConn, err |-> NilErr]} ELSE NewExecutorOutcomes

getDbConn(o) ==
  IF isConnected \/ o.err # NilErr
  THEN UNCHANGED <<isConnected, dbConn, conns, established>>
  ELSE /\ isConnected' = TRUE
       /\ dbConn' = o.conn
       /\ conns' = [conns EXCEPT ![o.conn].open = TRUE]
       /\ established' = established + 1

\* closeDbConn, lines 573-579.
closeDbConn ==
  IF isConnected
  THEN IF dbConn = 0
       THEN /\ pc' = "panic"  \* i.dbConn.Db on a nil executor
            /\ UNCHANGED <<isConnected, conns>>
       ELSE /\ conns' = [conns EXCEPT ![dbConn] = [open |-> FALSE, closes |-> @.closes + 1]]
            /\ isConnected' = FALSE
            /\ pc' = "idle"
  ELSE /\ pc' = "idle"
       /\ UNCHANGED <<isConnected, conns>>

(***************************************************************************)
(* Exec and ExecBatch.                                                     *)
(***************************************************************************)
ExecTexts == {BadSQL, AlterT1, SelectT1}

ExecBatches == SeqsUpTo(ExecTexts, MaxBatch)

NoResult == "nil"
ResultNoRows == "ResultNoRows"
DbResult == "result"

execFrame == <<rules, cnf, isOfflineAudit, inst, HasInvalidSql, Ctx, result,
               callVars, auditVars, histVars, cancelled, estVars, objVars, ruleVars>>

\* Exec, lines 184-206, called by the caller.
Exec ==
  /\ pc = "idle"
  /\ \E sql \in ExecTexts :
       /\ query' = sql
       /\ queries' = <<sql>>
  /\ op' = "Exec"
  /\ qi' = 1
  /\ execResults' = <<>>
  /\ execRet' = [results |-> <<>>, err |-> NilErr]
  /\ useGhost' = FALSE
  /\ tableSize' = ZeroSize
  /\ toolCalls' = <<>>
  /\ dbExecs' = <<>>
  /\ pc' = "exec"
  /\ UNCHANGED <<execFrame, isConnected, connVars>>

\* ExecBatch, line 209.
ExecBatch ==
  /\ pc = "idle"
  /\ \E qs \in ExecBatches : queries' = qs
  /\ op' = "ExecBatch"
  /\ qi' = 0
  /\ execResults' = <<>>
  /\ execRet' = [results |-> <<>>, err |-> NilErr]
  /\ query' = ""
  /\ useGhost' = FALSE
  /\ tableSize' = ZeroSize
  /\ toolCalls' = <<>>
  /\ dbExecs' = <<>>
  /\ pc' = "exec loop"
  /\ UNCHANGED <<execFrame, isConnected, connVars>>

\* ExecBatch, lines 210-211 and 217: the next statement is handed to Exec,
\* or the batch is done.
ExecBatchNext ==
  /\ pc = "exec loop"
  /\ IF qi < Len(queries)
     THEN /\ qi' = qi + 1
          /\ query' = queries[qi + 1]
          /\ useGhost' = FALSE
          /\ tableSize' = ZeroSize
          /\ toolCalls' = <<>>
          /\ dbExecs' = <<>>
          /\ pc' = "exec"
          /\ UNCHANGED <<execResults, execRet>>
     ELSE /\ execRet' = [results |-> execResults, err |-> NilErr]
          /\ pc' = "op returned"
          /\ UNCHANGED <<qi, query, useGhost, tableSize, toolCalls, dbExecs, execResults>>
  /\ UNCHANGED <<execFrame, isConnected, connVars, op, queries>>

\* Exec returns (res, err): to the caller, or to ExecBatch, lines 211-215,
\* which appends the result and returns on an error.
ExecReturns(res, err) ==
  IF op = "Exec"
  THEN /\ execRet' = [results |-> <<res>>, err |-> err]
       /\ pc' = "op returned"
       /\ UNCHANGED execResults
  ELSE /\ execResults' = Append(execResults, res)
       /\ IF err # NilErr
          THEN /\ execRet' = [results |-> Append(execResults, res), err |-> "exec sql failed"]
               /\ pc' = "op returned"
          ELSE /\ pc' = "exec loop"
               /\ UNCHANGED execRet

\* Variant of ExecDecide: the offline mode is looked at only when the
\* online-DDL tool is not configured.
ExecDecide_OfflineOnlyWithoutGhost ==
  /\ pc = "exec"
  /\ IF isOfflineAudit /\ cnf.DDLGhostMinSize = NoMinSize
     THEN /\ ExecReturns(NoResult, NilErr)
          /\ UNCHANGED <<useGhost, tableSize>>
     ELSE IF cnf.DDLGhostMinSize # NoMinSize /\ ParseSql(query).err # NilErr
     THEN /\ ExecReturns(NoResult, "check whether use ghost or not")
          /\ UNCHANGED <<useGhost, tableSize>>
     ELSE \E ts \in TableSizeOutcomes(Ctx) :
            LET n == ParseSql(query).node
                d == onlineddlWithGhost(cnf, n, ts)
            IN  /\ (cnf.DDLGhostMinSize = NoMinSize \/ n.kind # "AlterTableStmt")
                      => ts = [err |-> NilErr, size |-> ZeroSize]
                /\ tableSize' = ts.size
                /\ useGhost' = d.useGhost
                /\ IF d.err # NilErr
                   THEN ExecReturns(NoResult, "check whether use ghost or not")
                   ELSE /\ pc' = IF d.useGhost THEN "exec dry" ELSE "exec direct"
                        /\ UNCHANGED <<execResults, execRet>>
  /\ UNCHANGED <<execFrame, isConnected, connVars, op, queries, qi, query, execHist>>

\* Exec, lines 185-192: nothing is run offline; otherwise the decision of
\* onlineddlWithGhost for the outcome ts of GetTableSize.
ExecDecide ==
  /\ pc = "exec"
  /\ IF isOfflineAudit
     THEN /\ ExecReturns(NoResult, NilErr)
          /\ UNCHANGED <<useGhost, tableSize>>
     ELSE IF cnf.DDLGhostMinSize # NoMinSize /\ ParseSql(query).err # NilErr
     THEN /\ ExecReturns(NoResult, "check whether use ghost or not")
          /\ UNCHANGED <<useGhost, tableSize>>
     ELSE \E ts \in TableSizeOutcomes(Ctx) :
            LET n == ParseSql(query).node
                d == onlineddlWithGhost(cnf, n, ts)
            IN  /\ (cnf.DDLGhostMinSize = NoMinSize \/ n.kind # "AlterTableStmt")
                      => ts = [err |-> NilErr, size |-> ZeroSize]
                /\ tableSize' = ts.size
                /\ useGhost' = d.useGhost
                /\ IF d.err # NilErr
                   THEN ExecReturns(NoResult, "check whether use ghost or not")
                   ELSE /\ pc' = IF d.useGhost THEN "exec dry" ELSE "exec direct"
                        /\ UNCHANGED <<execResults, execRet>>
  /\ UNCHANGED <<execFrame, isConnected, connVars, op, queries, qi, query, execHist>>

\* Variant of ExecDryRun: the real run follows whatever the dry run returned.
ExecDryRun_IgnoresFailure ==
  /\ pc = "exec dry"
  /\ \E ok \in BOOLEAN :
       /\ toolCalls' = Append(toolCalls, ToolCall(TRUE, ok))
       /\ pc' = "exec real"
       /\ UNCHANGED <<execResults, execRet>>
  /\ UNCHANGED <<execFrame, isConnected, connVars, op, queries, qi, query,
                 useGhost, tableSize, dbExecs>>

\* Exec, lines 194-197, and executeByGhost, lines 145-182, as a dry run:
\* ok is the outcome of the tool.
ExecDryRun ==
  /\ pc = "exec dry"
  /\ \E ok \in BOOLEAN :
       /\ toolCalls' = Append(toolCalls, ToolCall(TRUE, ok))
       /\ IF ok
          THEN /\ pc' = "exec real"
               /\ UNCHANGED <<execResults, execRet>>
          ELSE ExecReturns(NoResult, "dry-run gh-ost")
  /\ UNCHANGED <<execFrame, isConnected, connVars, op, queries, qi, query,
                 useGhost, tableSize, dbExecs>>

\* Variant of ExecRealRun: a failed real run is started once more.
ExecRealRun_RetriesOnFailure ==
  /\ pc = "exec real"
  /\ \E ok \in BOOLEAN :
       /\ toolCalls' = Append(toolCalls, ToolCall(FALSE, ok))
       /\ IF ok
          THEN ExecReturns(ResultNoRows, NilErr)
          ELSE IF Len(toolCalls) < 2
          THEN /\ pc' = "exec real"
               /\ UNCHANGED <<execResults, execRet>>
          ELSE ExecReturns(NoResult, "run gh-ost")
  /\ UNCHANGED <<execFrame, isConnected, connVars, op, queries, qi, query,
                 useGhost, tableSize, dbExecs>>

\* Exec, line 198, and executeByGhost, lines 145-182, as the real run.
ExecRealRun ==
  /\ pc = "exec real"
  /\ \E ok \in BOOLEAN :
       /\ toolCalls' = Append(toolCalls, ToolCall(FALSE, ok))
       /\ IF ok
          THEN ExecReturns(ResultNoRows, NilErr)
          ELSE ExecReturns(NoResult, "run gh-ost")
  /\ UNCHANGED <<execFrame, isConnected, connVars, op, queries, qi, query,
                 useGhost, tableSize, dbExecs>>

\* Exec, lines 201-205: the statement is run on the connection.
ExecDirect ==
  /\ pc = "exec direct"
  /\ \E o \in getDbConnOutcomes, ok \in BOOLEAN :
       /\ getDbConn(o)
       /\ IF o.err = "panic" \/ (o.err = NilErr /\ o.conn = 0)
          THEN /\ ok
               /\ pc' = "panic"  \* a nil DSN or a nil executor is dereferenced
               /\ UNCHANGED <<execResults, execRet, dbExecs>>
          ELSE IF o.err # NilErr
          THEN /\ ok
               /\ ExecReturns(NoResult, o.err)
               /\ UNCHANGED dbExecs
          ELSE /\ dbExecs' = Append(dbExecs, query)
               /\ IF ok
                  THEN ExecReturns(DbResult, NilErr)
                  ELSE ExecReturns(NoResult, "exec failed")
  /\ UNCHANGED <<execFrame, op, queries, qi, query, useGhost, tableSize, toolCalls>>

Next ==
  \/ NewInspect
  \/ NewInspectWithExecutor
  \/ Audit
  \/ AuditNext
  \/ AuditCollect
  \/ Parse
  \/ PreValidate
  \/ DispatchRule
  \/ DispatchDone
  \/ IndexOptimizationPass
  \/ OnlineDDLDecision
  \/ RollbackAnnotation
  \/ ContextUpdate
  \/ Exec
  \/ ExecBatch
  \/ ExecBatchNext
  \/ ExecDecide
  \/ ExecDryRun
  \/ ExecRealRun
  \/ ExecDirect

Spec == Init /\ [][Next]_vars

TypeOK ==
  /\ pc \in {"new", "idle", "loop", "parse", "prevalidate", "dispatch", "optimize",
             "ghost", "osc", "update", "audit returned", "returned", "panic", "no driver"}
  /\ k \in 0..(MaxBatch + 1)
  /\ Len(results) <= MaxBatch


(***************************************************************************)
(* Definitions shared by the properties.                                   *)
(***************************************************************************)
AuditStagePCs == {"parse", "prevalidate", "dispatch", "optimize", "ghost", "osc", "update"}

StageOrder == <<"Parse", "PreValidate", "RuleDispatch", "IndexOptimizationPass",
                "OnlineDDLDecision", "RollbackAnnotation", "ContextUpdate">>

StagePos(name) == CHOOSE p \in 1..Len(StageOrder) : StageOrder[p] = name

DispatchFinished == "RuleDispatch" \in Range(stages)

\* The statements 1..n of the batch as parsed nodes.
Applied(n) == [j \in 1..n |-> ParseSql(sqls[j]).node]

CreatedBy(ns) == {ns[j].table : j \in {j \in 1..Len(ns) : ns[j].kind = "CreateTableStmt"}}

HasFunc(name) ==
  GetRuleHandlerFromAllRules(name).ok /\ GetRuleHandlerFromAllRules(name).Func # "nil"

RulePos(name) == CHOOSE j \in 1..Len(rules) : rules[j].Name = name

\* Names of the rules of i.rules the dispatch loop does not skip, in order.
RECURSIVE ApplicableFrom(_)
ApplicableFrom(j) ==
  IF j > Len(rules) THEN <<>>
  ELSE IF Skipped(j) THEN ApplicableFrom(j + 1)
  ELSE <<rules[j].Name>> \o ApplicableFrom(j + 1)

Count(s, x) == Cardinality({j \in 1..Len(s) : s[j] = x})

HandlerFindings(res) == SelectSeq(res, LAMBDA f : HasFunc(f.RuleName))

(***************************************************************************)
(* C1 as stated: when the audit of statement k fails, Audit returns the    *)
(* results of the statements 1..k-1 together with the error.               *)
(***************************************************************************)
C1_PartialResultsReturned ==
  (pc = "returned" /\ ret.err # NilErr /\ audited # <<>>) =>
     /\ ret.results = results
     /\ Len(ret.results) = k - 1

(***************************************************************************)
(* C1 amended: statements are audited one at a time in batch order; when   *)
(* the audit of statement k fails the statements after k are not audited   *)
(* and Audit returns the error and no results (the results of 1..k-1 are   *)
(* dropped); without a failure it returns one result per statement.        *)
(***************************************************************************)
C1_BatchAbortsWithoutResults ==
  /\ audited = [j \in 1..Len(audited) |-> j]
  /\ Len(audited) <= Len(sqls)
  /\ pc \in AuditStagePCs \cup {"audit returned"} =>
       (Len(audited) = k /\ Len(results) = k - 1)
  /\ (pc = "returned" /\ ret.err # NilErr /\ audited # <<>>) =>
       /\ Len(audited) = k
       /\ Len(results) = k - 1
       /\ auditErr # NilErr
       /\ ret = [results |-> <<>>, err |-> auditErr]
  /\ (pc = "returned" /\ ret.err = NilErr) =>
       /\ Len(audited) = Len(sqls)
       /\ ret.results = results
       /\ Len(ret.results) = Len(sqls)

C1_Witness ==
  /\ pc = "returned"
  /\ ret.err # NilErr
  /\ Len(results) = 1
  /\ k = 2
  /\ ret.results = <<>>

(***************************************************************************)
(* C2: offline and in fresh-audit mode, while statement k of the batch is  *)
(* audited the session context holds the DDL effect of exactly the         *)
(* statements 1..k-1, each applied once and in batch order.                *)
(***************************************************************************)
C2_ContextReflectsPrefix ==
  (isOfflineAudit /\ ~cnf.isExecutedSQL /\ pc \in AuditStagePCs) =>
     /\ Ctx.updates = Applied(k - 1)
     /\ Ctx.tables = CreatedBy(Applied(k - 1))

C2_Witness ==
  /\ isOfflineAudit
  /\ ~cnf.isExecutedSQL
  /\ pc = "dispatch"
  /\ k = 2
  /\ sqls = <<CreateT2, AlterT2>>
  /\ Ctx.tables = {"t2"}
  /\ GetCreateTableStmt(Ctx, node.table) = NilErr

(***************************************************************************)
(* C3: the stages of one audit run in the fixed order parse,               *)
(* pre-validation, rule dispatch, index-optimization pass, online-DDL      *)
(* decision, OSC/rollback annotation, context update; an audit that        *)
(* returns a result has run all of them that its configuration enables,    *)
(* and the context update, when it runs, is the last one.                  *)
(***************************************************************************)
C3_StagesInOrder ==
  /\ \A a, b \in 1..Len(stages) :
       a < b => StagePos(stages[a]) < StagePos(stages[b])
  /\ Range(stages) \subseteq Range(StageOrder)
  /\ (pc = "audit returned" /\ auditErr = NilErr) =>
       /\ {"Parse", "PreValidate", "RuleDispatch", "OnlineDDLDecision",
           "RollbackAnnotation"} \subseteq Range(stages)
       /\ ("IndexOptimizationPass" \in Range(stages)) = cnf.optimizeIndexEnabled
       /\ ("ContextUpdate" \in Range(stages)) = ~cnf.isExecutedSQL
       /\ ~cnf.isExecutedSQL =>
            /\ stages[Len(stages)] = "ContextUpdate"
            /\ Ctx = UpdateContext(ctxAtStart, node)

C3_Witness ==
  /\ pc = "audit returned"
  /\ auditErr = NilErr
  /\ stages = StageOrder

(***************************************************************************)
(* C4: a rule whose handler does not allow offline evaluation is never     *)
(* invoked, and contributes no finding, while the session has no live      *)
(* connection.                                                             *)
(***************************************************************************)
C4_NoOfflineRuleWithoutConnection ==
  ~Ctx.hasExecutor =>
     /\ \A j \in 1..Len(invoked) : GetRuleHandlerFromAllRules(invoked[j]).AllowOffline
     /\ \A j \in 1..Len(result) :
          HasFunc(result[j].RuleName) =>
             GetRuleHandlerFromAllRules(result[j].RuleName).AllowOffline

(***************************************************************************)
(* C5: when a rule handler returns an error, the handlers of all later     *)
(* applicable rules are still invoked, the stages after dispatch still     *)
(* run, and the audit does not return an error because of it.              *)
(***************************************************************************)
C5_HandlerFailureIsolated ==
  failed # {} =>
     /\ DispatchFinished => invoked = ApplicableFrom(1)
     /\ pc = "dispatch" => auditErr = NilErr
     /\ auditErr \in {NilErr, "check whether use ghost or not", "generate osc failed"}
     /\ (pc = "audit returned" /\ auditErr = NilErr) =>
          {"OnlineDDLDecision", "RollbackAnnotation"} \subseteq Range(stages)

C5_Witness ==
  /\ pc = "audit returned"
  /\ auditErr = NilErr
  /\ failed = {SQLE00041}
  /\ invoked = <<SQLE00041, SQLE00004>>


(***************************************************************************)
(* C6 as stated: when a rule handler returns an error, the result holds a  *)
(* finding with that rule's name and error severity, whatever level the    *)
(* rule is configured with.                                                *)
(***************************************************************************)
C6_FailureFindingHasErrorSeverity ==
  \A name \in failed :
     \E j \in 1..Len(result) :
        result[j].RuleName = name /\ result[j].Level = RuleLevelError

(***************************************************************************)
(* C6 amended: when a rule handler returns an error, the result holds a    *)
(* finding with that rule's name, marked as a failed execution, at the     *)
(* level the rule is configured with (error only if so configured).        *)
(***************************************************************************)
C6_FailureFindingHasConfiguredLevel ==
  /\ \A name \in failed :
        \E j \in 1..Len(result) :
           result[j] = Finding(rules[RulePos(name)].Level, name, TRUE)
  /\ \A j \in 1..Len(result) :
        result[j].ExecutionFailed =>
           /\ result[j].RuleName \in failed
           /\ result[j].Level = rules[RulePos(result[j].RuleName)].Level

C6_Witness ==
  /\ pc = "audit returned"
  /\ auditErr = NilErr
  /\ failed = {SQLE00041}
  /\ \E j \in 1..Len(result) : result[j] = Finding(RuleLevelNotice, SQLE00041, TRUE)

(***************************************************************************)
(* C7 as stated: for rules r1 before r2 in the active rule list every      *)
(* finding of r1 precedes every finding of r2, and two audits of the same  *)
(* statement under the same rule list, mode and session-context state      *)
(* produce the same findings.                                              *)
(***************************************************************************)
C7_FindingsInRuleListOrder ==
  /\ \A a, b \in 1..Len(result) :
        (/\ HasRule(rules, result[a].RuleName)
         /\ HasRule(rules, result[b].RuleName)
         /\ RulePos(result[a].RuleName) < RulePos(result[b].RuleName)) => a < b
  /\ cnf.isExecutedSQL =>
        \A a, b \in 1..Len(results) : sqls[a] = sqls[b] => results[a] = results[b]

(***************************************************************************)
(* C7 amended: the findings added by rule handlers during dispatch appear  *)
(* in the order of the active rule list, and two audits of the same        *)
(* statement under the same rule list, mode and session-context state      *)
(* produce the same handler findings; the findings of the other stages     *)
(* (pre-check warning before, index advice, gh-ost dry run and OSC notice  *)
(* after) are placed by stage, not by the position of their rule in the    *)
(* list, and depend on the outcome of the external step.                   *)
(***************************************************************************)
C7_HandlerFindingsInRuleListOrder ==
  /\ \A a, b \in 1..Len(result) :
        (/\ HasFunc(result[a].RuleName)
         /\ HasFunc(result[b].RuleName)
         /\ RulePos(result[a].RuleName) < RulePos(result[b].RuleName)) => a < b
  /\ \A a, b \in 1..Len(result) :
        (a < b /\ HasFunc(result[b].RuleName)) =>
           (HasFunc(result[a].RuleName) \/ result[a].RuleName = PreCheckErr)
  /\ cnf.isExecutedSQL =>
        \A a, b \in 1..Len(results) :
           sqls[a] = sqls[b] => HandlerFindings(results[a]) = HandlerFindings(results[b])

C7_Witness ==
  /\ pc = "audit returned"
  /\ auditErr = NilErr
  /\ rules[1].Name = ConfigDDLGhostMinSize
  /\ Len(result) = 3
  /\ result[1].RuleName = SQLE00063
  /\ result[2].RuleName = SQLE00041
  /\ result[3].RuleName = ConfigDDLGhostMinSize

(***************************************************************************)
(* C8: in already-executed mode a rule marked as only auditing             *)
(* not-executed SQL, or as disabled for the statement's type when already  *)
(* executed, is never invoked and contributes no finding; every other rule *)
(* of the list that has a handler and passes the offline filter is invoked *)
(* exactly once for the statement.                                         *)
(***************************************************************************)
ExecutedFiltered(name) ==
  \/ GetRuleHandlerFromAllRules(name).OnlyAuditNotExecutedSQL
  \/ node.kind \in GetRuleHandlerFromAllRules(name).NotSupportExecutedSQLAuditStmts

C8_ExecutedModeFilter ==
  (cnf.isExecutedSQL /\ pc \in (AuditStagePCs \ {"parse", "prevalidate"}) \cup {"audit returned"}
     /\ node # NilNode) =>
     /\ \A j \in 1..Len(invoked) : ~ExecutedFiltered(invoked[j])
     /\ \A j \in 1..Len(result) : ~ExecutedFiltered(result[j].RuleName)
     /\ DispatchFinished =>
          \A j \in 1..Len(rules) :
             Count(invoked, rules[j].Name) =
                IF /\ HasFunc(rules[j].Name)
                   /\ ~ExecutedFiltered(rules[j].Name)
                   /\ (isOfflineAudit => GetRuleHandlerFromAllRules(rules[j].Name).AllowOffline)
                THEN 1 ELSE 0

C8_Witness ==
  /\ cnf.isExecutedSQL
  /\ pc = "audit returned"
  /\ auditErr = NilErr
  /\ node.kind = "AlterTableStmt"
  /\ HasRule(rules, RuleNotExecutedOnly)
  /\ HasRule(rules, RuleNoExecutedAlter)
  /\ invoked = <<SQLE00004>>

(***************************************************************************)
(* C9: in already-executed mode no step of Audit changes the session       *)
(* context; in fresh-audit mode every successfully audited statement has   *)
(* caused exactly one context update, applied for that statement.          *)
(***************************************************************************)
C9_ContextUpdateOnlyWhenFresh ==
  /\ [][cnf.isExecutedSQL => Ctx' = Ctx]_vars
  /\ []((~cnf.isExecutedSQL /\ pc \in {"loop", "returned"}) =>
          Ctx.updates = Applied(Len(results)))
  /\ []((~cnf.isExecutedSQL /\ pc = "audit returned" /\ auditErr = NilErr) =>
          Ctx.updates = Append(ctxAtStart.updates, node))

C9_Witness ==
  /\ cnf.isExecutedSQL
  /\ pc = "returned"
  /\ ret.err = NilErr
  /\ ret.results # <<>>
  /\ sqls[1] = CreateT2
  /\ Ctx.updates = <<>>
  /\ Ctx.tables = {}

(***************************************************************************)
(* C10: whenever the audit of a statement returns an error, the session    *)
(* context is exactly as it was when that audit started.                   *)
(***************************************************************************)
C10_ErrorLeavesContextUntouched ==
  /\ (pc = "audit returned" /\ auditErr # NilErr) => Ctx = ctxAtStart
  /\ (pc = "returned" /\ ret.err # NilErr /\ audited # <<>>) => Ctx = ctxAtStart

C10_Witness ==
  /\ pc = "audit returned"
  /\ auditErr = "generate osc failed"
  /\ ~cnf.isExecutedSQL
  /\ node.kind = "AlterTableStmt"
  /\ Len(Ctx.updates) = 1

(***************************************************************************)
(* The online-DDL decision.                                                *)
(***************************************************************************)
\* S > T for a size S in MB and a whole threshold T.
Exceeds(size, t) == size.whole > t \/ (size.whole = t /\ size.half)

ExecDecided == pc \in {"exec dry", "exec direct"}

\* C11: the online-DDL path is selected for a statement if and only if it is
\* an ALTER TABLE, a threshold T is configured and the resolved table size S
\* is larger than T; S = T does not select it.
C11_GhostIffSizeExceedsThreshold ==
  ExecDecided =>
    (useGhost <=> /\ ParseSql(query).node.kind = "AlterTableStmt"
                  /\ cnf.DDLGhostMinSize # NoMinSize
                  /\ Exceeds(tableSize, cnf.DDLGhostMinSize))

GhostFindings(res) == SelectSeq(res, LAMBDA f : f.RuleName = ConfigDDLGhostMinSize)

AfterGhostPCs == {"osc", "update", "audit returned"}

\* C12: when audit selects the online-DDL path, the dry run is reported as
\* exactly one finding under the name of the online-DDL rule, of error
\* severity when it failed and of the rule's configured level when it
\* succeeded; the audit goes on with the OSC annotation whichever the
\* outcome, and unless that stage fails on its own the context update runs
\* and the result returned holds the finding.
C12_DryRunReportedAuditGoesOn ==
  /\ dryRuns # <<>> =>
       /\ pc \in AfterGhostPCs \cup {"loop", "returned"}
       /\ Len(dryRuns) = 1
       /\ Len(GhostFindings(result)) = 1
       /\ GhostFindings(result)[1].Level =
            IF dryRuns[1] THEN LevelOf(ConfigDDLGhostMinSize) ELSE RuleLevelError
       /\ auditErr # "check whether use ghost or not"
       /\ pc \in {"update", "audit returned"} => "RollbackAnnotation" \in Range(stages)
       /\ (pc = "audit returned" /\ auditErr = NilErr /\ ~cnf.isExecutedSQL)
             => "ContextUpdate" \in Range(stages)
  /\ (dryRuns = <<>> /\ pc \in AfterGhostPCs) => GhostFindings(result) = <<>>

\* A failed dry run is reported and audit returns with the context updated.
C12_Witness ==
  /\ pc = "audit returned"
  /\ auditErr = NilErr
  /\ dryRuns = <<FALSE>>
  /\ "ContextUpdate" \in Range(stages)
  /\ LevelOf(ConfigDDLGhostMinSize) = RuleLevelNotice

(***************************************************************************)
(* Exec and the online-DDL tool.                                           *)
(***************************************************************************)
InExec == op \in {"Exec", "ExecBatch"} /\ qi > 0

\* C13: in an Exec that selected the online-DDL path the tool is invoked in
\* dry-run mode first and in real mode second, the real run only after a
\* successful dry run; after a failed dry run Exec returns that error
\* without a real run; the statement is never run on the connection.
C13_DryRunThenRealRun ==
  (InExec /\ useGhost) =>
    /\ Len(toolCalls) <= 2
    /\ Len(toolCalls) >= 1 => toolCalls[1].dryRun
    /\ Len(toolCalls) = 2 => (toolCalls[1].ok /\ ~toolCalls[2].dryRun)
    /\ pc = "exec real" => toolCalls = <<ToolCall(TRUE, TRUE)>>
    /\ dbExecs = <<>>
    /\ pc \in {"op returned", "exec loop"} => toolCalls # <<>>
    /\ (pc = "op returned" /\ toolCalls = <<ToolCall(TRUE, FALSE)>>) =>
         /\ op = "Exec" => execRet = [results |-> <<NoResult>>, err |-> "dry-run gh-ost"]
         /\ op = "ExecBatch" => execRet.err = "exec sql failed"

\* Exec has returned after a failed dry run.
C13_Witness ==
  /\ op = "Exec"
  /\ pc = "op returned"
  /\ useGhost
  /\ toolCalls = <<ToolCall(TRUE, FALSE)>>
  /\ execRet.err = "dry-run gh-ost"

DryRuns(tc) == SelectSeq(tc, LAMBDA c : c.dryRun)

RealRuns(tc) == SelectSeq(tc, LAMBDA c : ~c.dryRun)

\* C14: the online-DDL tool is never retried: the audit of one statement
\* invokes it at most once and never in real mode, one Exec at most once in
\* dry-run mode and at most once in real mode.
C14_ToolNeverRetried ==
  /\ Len(DryRuns(toolCalls)) <= 1
  /\ Len(RealRuns(toolCalls)) <= 1
  /\ ~InExec => RealRuns(toolCalls) = <<>>
  /\ ~InExec => Len(toolCalls) = Len(dryRuns)

\* Exec has returned the failure of the real run.
C14_Witness ==
  /\ op = "Exec"
  /\ pc = "op returned"
  /\ toolCalls = <<ToolCall(TRUE, TRUE), ToolCall(FALSE, FALSE)>>
  /\ execRet.err = "run gh-ost"

(***************************************************************************)
(* The operations of a constructed driver, called one after another by     *)
(* its owner: Exec, ExecBatch, Tx, Ping, Schemas, EstimateSQLAffectRows,   *)
(* SetExecutor and Close.                                                  *)
(***************************************************************************)
\* The rule lists that make a difference to these operations.
OpsConfigLists == {<<>>, <<Rule(ConfigDDLGhostMinSize, RuleLevelNotice)>>}

\* Audit has not been called.
NoAudit ==
  /\ result = NewAuditResults
  /\ HasInvalidSql = FALSE
  /\ sqls = <<>>
  /\ k = 0
  /\ results = <<>>
  /\ ret = [results |-> <<>>, err |-> NilErr]
  /\ node = NilNode
  /\ ruleIdx = 0
  /\ ghostRule = NilRule
  /\ auditErr = NilErr
  /\ stages = <<>>
  /\ invoked = <<>>
  /\ failed = {}
  /\ dryRuns = <<>>
  /\ ctxAtStart = NewContext(FALSE)
  /\ audited = <<>>
  /\ checkErr = NilErr
  /\ resultId = 0
  /\ resultIds = <<>>
  /\ oscErr = NilErr
  /\ oscCommandLine = FALSE

\* The drivers that NewInspect and NewInspectWithExecutor return, lines
\* 53-94: with a connection (and a DSN), or without one, with or without
\* a DSN.
InitOps ==
  \E cfgRules \in OpsConfigLists, dsn \in {"nil", "dsn"}, conn \in BOOLEAN :
    /\ conn => dsn # "nil"
    /\ pc = "idle"
    /\ rules = cfgRules
    /\ cnf = applyConfig(cfgRules)
    /\ isOfflineAudit = (dsn = "nil")
    /\ isConnected = conn
    /\ inst = IF conn THEN dsn ELSE "nil"
    /\ Ctx = NewContext(conn)
    /\ NoAudit
    /\ dbConn = IF conn THEN 1 ELSE 0
    /\ conns = IF conn THEN [NoConns EXCEPT ![1].open = TRUE] ELSE NoConns
    /\ established = 0
    /\ cancelled = FALSE
    /\ op = "none"
    /\ queries = <<>>
    /\ qi = 0
    /\ execResults = <<>>
    /\ execRet = [results |-> <<>>, err |-> NilErr]
    /\ query = ""
    /\ useGhost = FALSE
    /\ tableSize = ZeroSize
    /\ toolCalls = <<>>
    /\ dbExecs = <<>>
    /\ NoEstimate
    /\ NoHandlerCall

opFrame == <<rules, cnf, isOfflineAudit, inst, HasInvalidSql, Ctx, result,
             callVars, auditVars, histVars, cancelled, estVars, objVars, ruleVars,
             queries, qi, execResults, query, useGhost, tableSize, toolCalls>>

\* The common shape of Tx, Ping, Schemas and EstimateSQLAffectRows: nothing
\* is done offline; otherwise getDbConn, and one call on the connection
\* that returns one of errs.
OnConnection(name, call, errs) ==
  /\ op' = name
  /\ IF isOfflineAudit
     THEN /\ execRet' = [results |-> <<>>, err |-> NilErr]
          /\ dbExecs' = <<>>
          /\ pc' = "op returned"
          /\ UNCHANGED <<isConnected, connVars>>
     ELSE \E o \in getDbConnOutcomes, e \in errs :
            /\ getDbConn(o)
            /\ IF o.err = "panic" \/ (o.err = NilErr /\ o.conn = 0)
               THEN /\ e = NilErr
                    /\ pc' = "panic"  \* a nil DSN or a nil executor is dereferenced
                    /\ dbExecs' = <<>>
                    /\ UNCHANGED execRet
               ELSE IF o.err # NilErr
               THEN /\ e = NilErr
                    /\ execRet' = [results |-> <<>>, err |-> o.err]
                    /\ dbExecs' = <<>>
                    /\ pc' = "op returned"
               ELSE /\ dbExecs' = <<call>>
                    /\ execRet' = [results |-> <<>>, err |-> e]
                    /\ pc' = "op returned"
  /\ UNCHANGED opFrame

DbCallErrs == {NilErr, "db error"}

\* Tx, lines 243-252.
Tx ==
  /\ pc = "idle"
  /\ OnConnection("Tx", "Transact", DbCallErrs)

\* Ping, lines 470-480.
Ping ==
  /\ pc = "idle"
  /\ OnConnection("Ping", "Ping", DbCallErrs)

\* Schemas, lines 482-491.
Schemas ==
  /\ pc = "idle"
  /\ OnConnection("Schemas", "ShowDatabases", DbCallErrs)

ErrUnsupportedSqlType == "unsupported sql type"

\* Variant of EstimateReplyErr: the unsupported-type error is returned as
\* an error like any other.
EstimateReplyErr_WrapsUnsupported(e) ==
  IF e # NilErr THEN "get affected row num failed" ELSE NilErr

\* EstimateSQLAffectRows, lines 504-513: the unsupported-type error becomes
\* a reply, every other error is wrapped.
EstimateReplyErr(e) ==
  IF e = ErrUnsupportedSqlType THEN NilErr
  ELSE IF e # NilErr THEN "get affected row num failed"
  ELSE NilErr

\* EstimateSQLAffectRows, lines 493-514.
EstimateSQLAffectRows ==
  /\ pc = "idle"
  /\ OnConnection("EstimateSQLAffectRows", "GetAffectedRowNum",
                  {EstimateReplyErr(e) : e \in {NilErr, ErrUnsupportedSqlType, "db error"}})

\* SetExecutor, lines 133-135.  The executor handed in is nil, one the
\* caller has just opened, or one that exists already.
SetExecutor ==
  /\ pc = "idle"
  /\ \E c \in {0} \cup FreshConns \cup {c \in 1..MaxConns : Created(c)} :
       /\ dbConn' = c
       /\ conns' = IF c \in FreshConns THEN [conns EXCEPT ![c].open = TRUE] ELSE conns
  /\ op' = "SetExecutor"
  /\ UNCHANGED <<pc, isConnected, established, opFrame, execRet, dbExecs>>

\* Close, lines 466-468.
Close ==
  /\ pc = "idle"
  /\ closeDbConn
  /\ op' = "Close"
  /\ UNCHANGED <<dbConn, established, opFrame, execRet, dbExecs>>

\* The caller's context is cancelled.
Cancel ==
  /\ pc \in {"idle", "exec loop", "exec", "exec dry", "exec real", "exec direct"}
  /\ ~cancelled
  /\ cancelled' = TRUE
  /\ UNCHANGED <<pc, driverVars, Ctx, result, callVars, auditVars, histVars,
                 connVars, op, execVars, execHist, estVars, objVars, ruleVars>>

\* The caller goes on after the return of an operation; the next operation
\* gets a context of its own.
CallerContinues ==
  /\ pc = "op returned"
  /\ pc' = "idle"
  /\ cancelled' = FALSE
  /\ queries' = <<>>
  /\ qi' = 0
  /\ execResults' = <<>>
  /\ execRet' = [results |-> <<>>, err |-> NilErr]
  /\ query' = ""
  /\ useGhost' = FALSE
  /\ tableSize' = ZeroSize
  /\ toolCalls' = <<>>
  /\ dbExecs' = <<>>
  /\ UNCHANGED <<driverVars, Ctx, result, callVars, auditVars, histVars,
                 connVars, op, estVars, objVars, ruleVars>>

NextOps ==
  \/ Exec
  \/ ExecBatch
  \/ ExecBatchNext
  \/ ExecDecide
  \/ ExecDryRun
  \/ ExecRealRun
  \/ ExecDirect
  \/ Tx
  \/ Ping
  \/ Schemas
  \/ EstimateSQLAffectRows
  \/ SetExecutor
  \/ Close
  \/ Cancel
  \/ CallerContinues

SpecOps == InitOps /\ [][NextOps]_vars

\* C15: every connection held by the driver is closed exactly once: no
\* connection is closed twice, and after a Close the connection that the
\* driver holds is not open.
C15_ConnectionsClosedExactlyOnce ==
  /\ \A c \in 1..MaxConns : conns[c].closes <= 1
  /\ (op = "Close" /\ pc = "idle" /\ dbConn # 0) => ~conns[dbConn].open

\* C16: once the caller's context is cancelled, ExecBatch starts the Exec
\* of no further statement of the batch.
C16_NoExecAfterCancellation ==
  [][cancelled => ~(pc = "exec loop" /\ pc' = "exec")]_vars

(***************************************************************************)
(* util.GetAffectedRowNum: the estimate of the rows a statement affects.   *)
(* A statement is known by its syntax tree; a clause that is absent is     *)
(* NilClause.  SQL text is a sequence of tokens.                           *)
(***************************************************************************)
NilClause == "nil"

CountOne == "COUNT(1)"
CountStar == "count(*)"

SelectNode(fields, from, where, groupBy, having, orderBy, limit) ==
  [type |-> "Select", Fields |-> fields, From |-> from, Where |-> where,
   GroupBy |-> groupBy, Having |-> having, OrderBy |-> orderBy, Limit |-> limit]

UpdateNode(refs, where, order, limit) ==
  [type |-> "Update", TableRefs |-> refs, Where |-> where, Order |-> order, Limit |-> limit]

DeleteNode(refs, where, order, limit) ==
  [type |-> "Delete", TableRefs |-> refs, Where |-> where, Order |-> order, Limit |-> limit]

InsertNode(lists, select) == [type |-> "Insert", Lists |-> lists, Select |-> select]

UnionNode == [type |-> "Union"]
OtherNode == [type |-> "CreateTable"]
BadNode == [type |-> "bad"]

Wheres == {NilClause, "id > 1"}
GroupBys == {NilClause, "name"}
Havings == {NilClause, "COUNT(1) > 1"}
OrderBys == {NilClause, "id"}
Limits == {NilClause, "10"}

SelectStmts ==
  {SelectNode(<<"name">>, f, w, g, h, o, l) :
     f \in {NilClause, "t2"}, w \in Wheres, g \in GroupBys, h \in Havings,
     o \in OrderBys, l \in Limits}

UpdateStmts == {UpdateNode("t1", w, o, l) : w \in Wheres, o \in OrderBys, l \in Limits}

DeleteStmts == {DeleteNode("t1", w, o, l) : w \in Wheres, o \in OrderBys, l \in Limits}

\* stmt.Lists of an INSERT without VALUES.
NoLists == <<>>

\* The VALUES lists of an INSERT: none, or one to MaxTuples tuples.
ValueLists == {NoLists} \cup {[j \in 1..n |-> "('a')"] : n \in 1..MaxTuples}

InsertStmts ==
  {InsertNode(ls, sel) : ls \in ValueLists, sel \in {NilStmt, UnionNode} \cup SelectStmts}

\* The statements handed to GetAffectedRowNum: what ParseOneSql makes of
\* the text, and whether the text ends with a semicolon.
EstInputs ==
  {[node |-> n, semi |-> sm] :
     n \in SelectStmts \cup UpdateStmts \cup DeleteStmts \cup {OtherNode, BadNode},
     sm \in BOOLEAN} \cup
  {[node |-> n, semi |-> FALSE] : n \in InsertStmts}

\* ParseOneSql of the text of a statement.
ParseOneSql(sql) ==
  IF sql.node = BadNode THEN [err |-> "parse error", node |-> NilStmt]
  ELSE [err |-> NilErr, node |-> sql.node]

Clause(keyword, c) == IF c = NilClause THEN <<>> ELSE <<keyword, c>>

\* Restore: the text of a SELECT, or of a UNION.
Restore(n) ==
  IF n.type = "Union"
  THEN <<"SELECT", "name", "FROM", "t1", "UNION", "SELECT", "name", "FROM", "t2">>
  ELSE <<"SELECT">> \o n.Fields \o Clause("FROM", n.From) \o Clause("WHERE", n.Where)
         \o Clause("GROUP BY", n.GroupBy) \o Clause("HAVING", n.Having)
         \o Clause("ORDER BY", n.OrderBy) \o Clause("LIMIT", n.Limit)

\* The text of the statement as it was handed in.
Text(sql) == Restore(sql.node) \o (IF sql.semi THEN <<";">> ELSE <<>>)

RECURSIVE TrimRight(_, _)
\* strings.TrimRight(text, cutset).
TrimRight(text, cutset) ==
  IF text # <<>> /\ text[Len(text)] = cutset
  THEN TrimRight(SubSeq(text, 1, Len(text) - 1), cutset)
  ELSE text

\* GetAffectedRowNum, lines 82-83.
WrapCount(text) ==
  <<"select", CountStar, "from", "(">> \o TrimRight(text, ";") \o <<")", "as", "t">>

\* newSelectWithCount and getCountFieldList, lines 231-261.
newSelectWithCount ==
  SelectNode(<<CountOne>>, NilClause, NilClause, NilClause, NilClause, NilClause, NilClause)

\* getSelectNodeFromDelete, lines 163-183.
getSelectNodeFromDelete(stmt) ==
  [newSelectWithCount EXCEPT !.From = stmt.TableRefs, !.Where = stmt.Where,
                             !.OrderBy = stmt.Order, !.Limit = stmt.Limit]

\* Variant of getSelectNodeFromUpdate: the LIMIT is not taken over.
getSelectNodeFromUpdate_DropsLimit(stmt) ==
  [newSelectWithCount EXCEPT !.From = stmt.TableRefs, !.Where = stmt.Where,
                             !.OrderBy = stmt.Order]

\* getSelectNodeFromUpdate, lines 185-205.
getSelectNodeFromUpdate(stmt) ==
  [newSelectWithCount EXCEPT !.From = stmt.TableRefs, !.Where = stmt.Where,
                             !.OrderBy = stmt.Order, !.Limit = stmt.Limit]

\* getSelectNodeFromSelect, lines 207-229.
getSelectNodeFromSelect(stmt) ==
  [newSelectWithCount EXCEPT !.From = stmt.From, !.Where = stmt.Where,
                             !.OrderBy = stmt.OrderBy, !.Limit = stmt.Limit]

isCommonInsert(stmt) == stmt.Lists # NoLists /\ stmt.Select = NilStmt

isSelectInsert(stmt) == stmt.Select # NilStmt /\ stmt.Lists = NoLists

EstReturn(count, err) == [count |-> count, err |-> err]

\* Variant of CommonInsertReturn: one row whatever the number of tuples.
CommonInsertReturn_OneRow(stmt) == EstReturn(1, NilErr)

\* GetAffectedRowNum, line 65.
CommonInsertReturn(stmt) == EstReturn(Len(stmt.Lists), NilErr)

\* GetAffectedRowNum, lines 39-75: the switch over the statement.  done
\* tells that the function returns ret from within the switch.
Convert(sql, stmt) ==
  LET go(nn, cc, origin) ==
        [done |-> FALSE, ret |-> EstReturn(0, NilErr), newNode |-> nn,
         cannotConvert |-> cc, originSql |-> origin]
      return(r) ==
        [done |-> TRUE, ret |-> r, newNode |-> NilStmt, cannotConvert |-> FALSE,
         originSql |-> sql]
  IN  CASE stmt.type = "Select" ->
             go(getSelectNodeFromSelect(stmt),
                stmt.GroupBy # NilClause
                  \/ (stmt.GroupBy # NilClause /\ stmt.Having # NilClause)
                  \/ stmt.Limit # NilClause,
                sql)
        [] stmt.type = "Insert" ->
             IF isSelectInsert(stmt)
             THEN IF stmt.Select.type = "Select"
                  THEN go(getSelectNodeFromSelect(stmt.Select), FALSE, sql)
                  ELSE IF stmt.Select.type = "Union"
                  THEN go(NilStmt, TRUE, [node |-> stmt.Select, semi |-> FALSE])
                  ELSE go(NilStmt, FALSE, sql)
             ELSE IF isCommonInsert(stmt)
             THEN return(CommonInsertReturn(stmt))
             ELSE return(EstReturn(0, ErrUnsupportedSqlType))
        [] stmt.type = "Update" -> go(getSelectNodeFromUpdate(stmt), FALSE, sql)
        [] stmt.type = "Delete" -> go(getSelectNodeFromDelete(stmt), FALSE, sql)
        [] OTHER -> return(EstReturn(0, ErrUnsupportedSqlType))

\* SelectFieldExtractor on the text of the count query: the select list is
\* a single COUNT.
IsSelectOnlyIncludeCountFunc(text) ==
  /\ Len(text) >= 2
  /\ text[2] \in {CountOne, CountStar}
  /\ Len(text) >= 3 => text[3] \in {"FROM", "from", "WHERE", "ORDER BY", "LIMIT"}

\* checkSql, lines 263-277; parses is the outcome of ParseOneSql.
checkSql(text, parses) ==
  IF ~parses THEN "parse error"
  ELSE IF ~IsSelectOnlyIncludeCountFunc(text) THEN "affectRowSql error"
  ELSE NilErr

estFrame == <<pc, driverVars, Ctx, result, callVars, auditVars, histVars, opsVars,
              objVars, ruleVars>>

\* GetAffectedRowNum, lines 24-97: up to the text of the count query.
GetAffectedRowNum ==
  /\ estPc = "start"
  /\ LET p == ParseOneSql(originSql)
         c == Convert(originSql, p.node)
     IN  IF p.err # NilErr
         THEN /\ estRet' = EstReturn(0, p.err)
              /\ estPc' = "done"
              /\ UNCHANGED <<originSql, cannotConvert, newNode, affectedRowSql>>
         ELSE IF c.done
         THEN /\ estRet' = c.ret
              /\ estPc' = "done"
              /\ UNCHANGED <<originSql, cannotConvert, newNode, affectedRowSql>>
         ELSE /\ originSql' = c.originSql
              /\ cannotConvert' = c.cannotConvert
              /\ newNode' = c.newNode
              /\ IF c.cannotConvert
                 THEN /\ affectedRowSql' = WrapCount(Text(c.originSql))
                      /\ estPc' = "check"
                      /\ UNCHANGED estRet
                 ELSE IF c.newNode = NilStmt
                 THEN /\ estRet' = EstReturn(0, "get select node failed")
                      /\ estPc' = "done"
                      /\ UNCHANGED affectedRowSql
                 ELSE /\ affectedRowSql' = Restore(c.newNode)
                      /\ estPc' = "check"
                      /\ UNCHANGED estRet
  /\ UNCHANGED <<estLog, estFrame, sqlIn, epRecords, row, reply>>

\* Variant of ValidateCountSql: the count query is used whatever the
\* validation says.
ValidateCountSql_IgnoresFailure ==
  /\ estPc = "check"
  /\ \E parses \in BOOLEAN :
       LET err == checkSql(affectedRowSql, parses)
       IN  /\ estLog' = Append(estLog, IF err = NilErr THEN "check ok" ELSE "check failed")
           /\ estPc' = "explain"
           /\ UNCHANGED estRet
  /\ UNCHANGED <<originSql, cannotConvert, newNode, affectedRowSql, estFrame>>
  /\ UNCHANGED <<sqlIn, epRecords, row, reply>>

\* GetAffectedRowNum, lines 99-104: the count query is validated.
ValidateCountSql ==
  /\ estPc = "check"
  /\ \E parses \in BOOLEAN :
       LET err == checkSql(affectedRowSql, parses)
       IN  /\ estLog' = Append(estLog, IF err = NilErr THEN "check ok" ELSE "check failed")
           /\ IF err # NilErr
              THEN /\ estRet' = EstReturn(0, "check sql failed")
                   /\ estPc' = "done"
              ELSE /\ estPc' = "explain"
                   /\ UNCHANGED estRet
  /\ UNCHANGED <<originSql, cannotConvert, newNode, affectedRowSql, estFrame>>
  /\ UNCHANGED <<sqlIn, epRecords, row, reply>>

RowsCeiling == 100000

ExplainRecordAccessTypeAll == "ALL"

ExplainRecords ==
  {[Type |-> t, Rows |-> r] : t \in {ExplainRecordAccessTypeAll, "ref"},
                              r \in {0, 1, RowsCeiling}}

\* Outcomes of explainRecordFunc.
ExplainOutcomes ==
  {[err |-> NilErr, records |-> rs] : rs \in SeqsUpTo(ExplainRecords, MaxPlanRows)} \cup
  {[err |-> "explain failed", records |-> <<>>]}

RECURSIVE SumRows(_)
SumRows(rs) == IF rs = <<>> THEN 0 ELSE rs[1].Rows + SumRows(Tail(rs))

\* Variant of ExplainCountSql: an estimate that reaches the ceiling is
\* returned as well.
ExplainCountSql_CeilingExcluded ==
  /\ estPc = "explain"
  /\ estLog' = Append(estLog, "explain")
  /\ \E e \in ExplainOutcomes :
       LET notUseIndex == \E j \in 1..Len(e.records) :
                             e.records[j].Type = ExplainRecordAccessTypeAll
           estimatedRows == SumRows(e.records)
           affetcCount == IF e.records = <<>> THEN 0
                          ELSE e.records[Len(e.records)].Rows
       IN  /\ epRecords' = e.records
           /\ IF e.err # NilErr
              THEN /\ estRet' = EstReturn(0, "get affected rows sql execution plan failed")
                   /\ estPc' = "done"
              ELSE IF notUseIndex \/ estimatedRows >= RowsCeiling
              THEN /\ estRet' = EstReturn(affetcCount, NilErr)
                   /\ estPc' = "done"
              ELSE /\ estPc' = "query"
                   /\ UNCHANGED estRet
  /\ UNCHANGED <<originSql, cannotConvert, newNode, affectedRowSql, estFrame>>
  /\ UNCHANGED <<sqlIn, row, reply>>

\* GetAffectedRowNum, lines 113-137: the plan of the count query decides
\* whether its estimate is returned.
ExplainCountSql ==
  /\ estPc = "explain"
  /\ estLog' = Append(estLog, "explain")
  /\ \E e \in ExplainOutcomes :
       LET notUseIndex == \E j \in 1..Len(e.records) :
                             e.records[j].Type = ExplainRecordAccessTypeAll
           estimatedRows == SumRows(e.records)
           affetcCount == IF e.records = <<>> THEN 0
                          ELSE e.records[Len(e.records)].Rows
       IN  /\ epRecords' = e.records
           /\ IF e.err # NilErr
              THEN /\ estRet' = EstReturn(0, "get affected rows sql execution plan failed")
                   /\ estPc' = "done"
              ELSE IF notUseIndex \/ estimatedRows > RowsCeiling
              THEN /\ estRet' = EstReturn(affetcCount, NilErr)
                   /\ estPc' = "done"
              ELSE /\ estPc' = "query"
                   /\ UNCHANGED estRet
  /\ UNCHANGED <<originSql, cannotConvert, newNode, affectedRowSql, estFrame>>
  /\ UNCHANGED <<sqlIn, row, reply>>

\* strconv.ParseInt of the strings that the count query returns here.
ParseInt(str) ==
  CASE str = "0" -> [v |-> 0, err |-> NilErr]
    [] str = "7" -> [v |-> 7, err |-> NilErr]
    [] OTHER -> [v |-> 0, err |-> "invalid syntax"]

\* Outcomes of conn.Db.QueryWithContext: an error, or the rows.
QueryOutcomes ==
  {[err |-> "query failed", row |-> <<>>], [err |-> NilErr, row |-> <<>>]} \cup
  {[err |-> NilErr, row |-> <<<<str>>>>] : str \in {"0", "7", "seven"}}

\* Variant of QueryCountSql: an empty result set is an error.
QueryCountSql_EmptyIsError ==
  /\ estPc = "query"
  /\ estLog' = Append(estLog, "query")
  /\ \E q \in QueryOutcomes :
       /\ row' = q.row
       /\ estRet' = IF q.err # NilErr THEN EstReturn(0, "get affected rows failed")
                    ELSE IF Len(q.row) = 0 THEN EstReturn(0, "result row count less than 1")
                    ELSE IF ParseInt(q.row[1][1]).err # NilErr
                    THEN EstReturn(0, ParseInt(q.row[1][1]).err)
                    ELSE EstReturn(ParseInt(q.row[1][1]).v, NilErr)
  /\ estPc' = "done"
  /\ UNCHANGED <<originSql, cannotConvert, newNode, affectedRowSql, estFrame>>
  /\ UNCHANGED <<sqlIn, epRecords, reply>>

\* GetAffectedRowNum, lines 139-160: the count query is run.
QueryCountSql ==
  /\ estPc = "query"
  /\ estLog' = Append(estLog, "query")
  /\ \E q \in QueryOutcomes :
       /\ row' = q.row
       /\ estRet' = IF q.err # NilErr THEN EstReturn(0, "get affected rows failed")
                    ELSE IF Len(q.row) = 0 THEN EstReturn(0, NilErr)
                    ELSE IF ParseInt(q.row[1][1]).err # NilErr
                    THEN EstReturn(0, ParseInt(q.row[1][1]).err)
                    ELSE EstReturn(ParseInt(q.row[1][1]).v, NilErr)
  /\ estPc' = "done"
  /\ UNCHANGED <<originSql, cannotConvert, newNode, affectedRowSql, estFrame>>
  /\ UNCHANGED <<sqlIn, epRecords, reply>>

\* EstimateSQLAffectRows, lines 503-513: the reply made of what
\* GetAffectedRowNum returned.
EstimatedAffectRows(r) ==
  IF r.err = ErrUnsupportedSqlType
  THEN [Count |-> 0, ErrMessage |-> r.err, err |-> EstimateReplyErr(r.err)]
  ELSE IF r.err # NilErr
  THEN [Count |-> 0, ErrMessage |-> "", err |-> EstimateReplyErr(r.err)]
  ELSE [Count |-> r.count, ErrMessage |-> "", err |-> NilErr]

\* EstimateSQLAffectRows, lines 503-513, after the return of
\* GetAffectedRowNum.
EstimateReply ==
  /\ estPc = "done"
  /\ reply' = EstimatedAffectRows(estRet)
  /\ estPc' = "replied"
  /\ UNCHANGED <<originSql, cannotConvert, newNode, affectedRowSql, estRet, estLog,
                 sqlIn, epRecords, row, estFrame>>

\* No driver has been constructed.
NoDriver ==
  /\ pc = "new"
  /\ rules = <<>>
  /\ cnf = NoCnf
  /\ isOfflineAudit = FALSE
  /\ isConnected = FALSE
  /\ inst = "nil"
  /\ Ctx = NewContext(FALSE)
  /\ NoAudit
  /\ NoOperation

\* GetAffectedRowNum is called for one of the statements.
InitEst ==
  /\ NoDriver
  /\ NoHandlerCall
  /\ estPc = "start"
  /\ originSql \in EstInputs
  /\ sqlIn = originSql
  /\ epRecords = <<>>
  /\ row = <<>>
  /\ reply = NoReply
  /\ cannotConvert = FALSE
  /\ newNode = NilStmt
  /\ affectedRowSql = <<>>
  /\ estRet = EstReturn(0, NilErr)
  /\ estLog = <<>>

NextEst ==
  \/ GetAffectedRowNum
  \/ ValidateCountSql
  \/ ExplainCountSql
  \/ QueryCountSql
  \/ EstimateReply

SpecEst == InitEst /\ [][NextEst]_vars

SentToDatabase == {"explain", "query"}

\* GetAffectedRowNum has returned.
Returned == estPc \in {"done", "replied"}

\* C17: for an INSERT with VALUES lists and no subquery GetAffectedRowNum
\* returns the number of value tuples and no error, and neither a plan is
\* requested nor a query run.
C17_InsertValuesCountsTuples ==
  (originSql.node.type = "Insert" /\ isCommonInsert(originSql.node)) =>
    /\ estLog = <<>>
    /\ estPc = "start" \/ Returned
    /\ Returned => estRet = EstReturn(Len(originSql.node.Lists), NilErr)

\* An INSERT of MaxTuples tuples has been answered.
C17_Witness ==
  /\ estPc = "done"
  /\ originSql.node.type = "Insert"
  /\ isCommonInsert(originSql.node)
  /\ Len(originSql.node.Lists) = MaxTuples
  /\ estRet.count = MaxTuples

\* The SELECT that the count query is made from: the statement itself, or
\* the subquery of an INSERT ... SELECT.
SubjectSelect ==
  IF originSql.node.type = "Select" THEN originSql.node
  ELSE IF originSql.node.type = "Insert" /\ isSelectInsert(originSql.node)
          /\ originSql.node.Select.type = "Select"
  THEN originSql.node.Select
  ELSE NilStmt

IsWrapped(text) ==
  /\ Len(text) >= 7
  /\ SubSeq(text, 1, 4) = <<"select", CountStar, "from", "(">>
  /\ SubSeq(text, Len(text) - 2, Len(text)) = <<")", "as", "t">>

Converted == estPc \in {"check", "explain", "query"}

\* C18: for a SELECT, and for the SELECT of an INSERT ... SELECT, the count
\* query is the wrapped form when the SELECT has a GROUP BY or a LIMIT,
\* and otherwise a fresh SELECT COUNT(1) with its FROM, WHERE and ORDER BY.
C18_WrappedIffGroupByOrLimit ==
  (Converted /\ SubjectSelect # NilStmt) =>
    IF SubjectSelect.GroupBy # NilClause \/ SubjectSelect.Limit # NilClause
    THEN IsWrapped(affectedRowSql)
    ELSE affectedRowSql =
           Restore(SelectNode(<<CountOne>>, SubjectSelect.From, SubjectSelect.Where,
                              NilClause, NilClause, SubjectSelect.OrderBy, NilClause))

\* C19: the SELECT made from an UPDATE or a DELETE has COUNT(1) as its only
\* field and the FROM (table references), WHERE, ORDER BY and LIMIT of the
\* statement, each present exactly when the statement has it.
C19_CountSelectKeepsClauses ==
  (Converted /\ originSql.node.type \in {"Update", "Delete"}) =>
    /\ ~cannotConvert
    /\ newNode = SelectNode(<<CountOne>>, originSql.node.TableRefs, originSql.node.Where,
                            NilClause, NilClause, originSql.node.Order,
                            originSql.node.Limit)
    /\ affectedRowSql =
         <<"SELECT", CountOne, "FROM", originSql.node.TableRefs>>
           \o Clause("WHERE", originSql.node.Where)
           \o Clause("ORDER BY", originSql.node.Order)
           \o Clause("LIMIT", originSql.node.Limit)

\* An UPDATE with WHERE, ORDER BY and LIMIT has been converted.
C19_Witness ==
  /\ estPc = "check"
  /\ originSql.node = UpdateNode("t1", "id > 1", "id", "10")
  /\ affectedRowSql = <<"SELECT", CountOne, "FROM", "t1", "WHERE", "id > 1",
                        "ORDER BY", "id", "LIMIT", "10">>

\* C20: nothing is sent to the database before the count query has passed
\* the validation, and when the validation fails an error is returned and
\* neither a plan is requested nor a query run.
C20_ValidatedBeforeSent ==
  /\ \A j \in 1..Len(estLog) :
       estLog[j] \in SentToDatabase => (j > 1 /\ estLog[1] = "check ok")
  /\ estPc \in {"explain", "query"} => estLog # <<>> /\ estLog[1] = "check ok"
  /\ (estLog # <<>> /\ estLog[1] = "check failed") =>
       /\ estLog = <<"check failed">>
       /\ Returned
       /\ estRet = EstReturn(0, "check sql failed")

\* The validation of a wrapped count query has failed.
C20_Witness ==
  /\ estPc = "done"
  /\ cannotConvert
  /\ estLog = <<"check failed">>
  /\ estRet.err = "check sql failed"

(***************************************************************************)
(* The rule handlers called on their own, each on the inputs of its rule.  *)
(***************************************************************************)
MaxSpecs == 2
MaxKeys == 2
MaxConstraints == 2

IndexNames == {<<"a">>, <<"uniq", "a">>, <<"idx", "uk", "t1", "c">>}

\* A unique key a (c), a unique index a (c) and a plain index k (d), under
\* each of the names.
Constraints ==
  {Constraint(ConstraintUniq, name, <<"c">>) : name \in IndexNames} \cup
  {Constraint(ConstraintUniqIndex, <<"a">>, <<"c">>),
   Constraint(ConstraintIndex, <<"k">>, <<"d">>)}

\* The constraints of the table t1 as the session knows it.
TableConstraints ==
  {<<>>,
   <<Constraint(ConstraintUniq, <<"a">>, <<"c">>)>>,
   <<Constraint(ConstraintIndex, <<"k">>, <<"d">>)>>,
   <<Constraint(ConstraintUniq, <<"a">>, <<"c">>),
     Constraint(ConstraintIndex, <<"k">>, <<"d">>)>>,
   <<Constraint(ConstraintUniqIndex, <<"a">>, <<"c">>)>>}

AlterSpecs ==
  {AddConstraintSpec(c) : c \in Constraints} \cup
  {RenameIndexSpec(from, to) : from \in {<<"a">>, <<"k">>}, to \in IndexNames} \cup
  {AddColumnsSpec}

TableOptions ==
  {<<>>, <<TableOption(TableOptionEngine, 0)>>} \cup
  {<<TableOption(TableOptionAutoIncrement, v)>> : v \in 0..2}

SetVariables ==
  {<<VariableAssignment(name, isValueExpr, int)>> :
     name \in {"auto_increment_offset", "AUTO_INCREMENT_OFFSET", "sql_mode"},
     isValueExpr \in BOOLEAN, int \in -1..2}

HandlerNodes ==
  {CreateTableNode("t1", os, cs) : os \in TableOptions, cs \in TableConstraints} \cup
  {SetNode(vs) : vs \in SetVariables} \cup
  {CreateIndexNode("t1", kt, name, <<"c">>) :
     kt \in {IndexKeyTypeNone, IndexKeyTypeUnique, IndexKeyTypeFullText},
     name \in IndexNames} \cup
  {AlterTableNode("t1", specs) : specs \in SeqsUpTo(AlterSpecs, MaxSpecs) \ {<<>>}} \cup
  {SelectTableNode("t1")}

\* The session does not know t1, or knows it by its CREATE TABLE.
HandlerContexts ==
  {NewContext(FALSE)} \cup
  {UpdateContext(NewContext(FALSE), CreateTableNode("t1", <<>>, cs)) :
     cs \in TableConstraints}

HandlerRules ==
  {RuleWith(name, RuleLevelWarn, ps) :
     name \in {SQLE00004, SQLE00041, SQLE00063}, ps \in {DefaultParams, <<>>}}

HandlerInputs ==
  {[Ctx |-> ctx, Rule |-> rule, Res |-> res, Node |-> n] :
     ctx \in HandlerContexts, rule \in HandlerRules,
     res \in {NewAuditResults, Add(NewAuditResults, RuleLevelWarn, PreCheckErr)},
     n \in HandlerNodes}

ruleFrame == <<pc, driverVars, Ctx, result, callVars, auditVars, histVars, opsVars,
               estVars, objVars>>

\* The call of a handler: the error is returned, the findings are added to
\* the result set of the input.
HandlerReturns(out) ==
  /\ hErr' = out.err
  /\ input' = [input EXCEPT !.Res = out.res]
  /\ hPc' = "returned"
  /\ UNCHANGED <<ruleFrame, utilVars>>

CallSQLE00004 ==
  /\ hPc = "start"
  /\ input.Rule.Name = SQLE00004
  /\ HandlerReturns(RuleSQLE00004(input.Ctx, input.Rule, input.Res, input.Node))

CallSQLE00041 ==
  /\ hPc = "start"
  /\ input.Rule.Name = SQLE00041
  /\ HandlerReturns(RuleSQLE00041(input.Ctx, input.Rule, input.Res, input.Node))

CallSQLE00063 ==
  /\ hPc = "start"
  /\ input.Rule.Name = SQLE00063
  /\ HandlerReturns(RuleSQLE00063(input.Ctx, input.Rule, input.Res, input.Node))

InitRules ==
  /\ NoDriver
  /\ NoEstimate
  /\ hPc = "start"
  /\ input \in HandlerInputs
  /\ hErr = NilErr
  /\ NoUtilCall

NextRules ==
  \/ CallSQLE00004
  \/ CallSQLE00041
  \/ CallSQLE00063

SpecRules == InitRules /\ [][NextRules]_vars

Logged(what) == \E j \in 1..Len(estLog) : estLog[j] = what

\* The plan request has succeeded.
PlanKnown ==
  /\ Logged("explain")
  /\ estRet.err # "get affected rows sql execution plan failed"

FullScan(records) ==
  \E j \in 1..Len(records) : records[j].Type = ExplainRecordAccessTypeAll

QueryAnswered ==
  /\ Logged("query")
  /\ estRet.err # "get affected rows failed"

\* C22: when the live count query succeeds with an empty result set the
\* estimator returns the count 0 and no error; when it succeeds with at
\* least one row the count is the integer parsed from the first column of the
\* first row.
C22_CountFromFirstRow ==
  QueryAnswered =>
    /\ Returned
    /\ row = <<>> => estRet = EstReturn(0, NilErr)
    /\ (row # <<>> /\ row[1][1] = "7") => estRet = EstReturn(7, NilErr)
    /\ (row # <<>> /\ row[1][1] = "0") => estRet = EstReturn(0, NilErr)
    /\ (row # <<>> /\ estRet.err = NilErr) => row[1][1] \in {"0", "7"}

\* The live query has answered with no row at all.
C22_Witness ==
  /\ QueryAnswered
  /\ estPc = "done"
  /\ row = <<>>
  /\ estRet = EstReturn(0, NilErr)

\* A statement of a type, or an INSERT of a shape, that the estimator has no
\* count query for.
Unsupported(n) ==
  \/ n.type \notin {"Select", "Insert", "Update", "Delete", "bad"}
  \/ n.type = "Insert" /\ n.Lists = NoLists /\ n.Select = NilStmt

\* C23: for a statement that is not a SELECT, an INSERT with VALUES or with
\* a subquery, an UPDATE or a DELETE, GetAffectedRowNum fails with the
\* unsupported-type error and neither requests a plan nor runs a query;
\* EstimateSQLAffectRows turns exactly that error into a reply with the
\* message, no count and no error, and returns every other error of the
\* estimator as an error.
C23_UnsupportedTypeIsAReplyNotAnError ==
  /\ Unsupported(sqlIn.node) =>
       /\ estLog = <<>>
       /\ estPc = "start" \/ Returned
       /\ Returned => estRet = EstReturn(0, "unsupported sql type")
  /\ estPc = "replied" =>
       /\ estRet.err = "unsupported sql type" =>
            reply = [Count |-> 0, ErrMessage |-> "unsupported sql type", err |-> NilErr]
       /\ estRet.err \notin {NilErr, "unsupported sql type"} =>
            reply.err # NilErr /\ reply.Count = 0 /\ reply.ErrMessage = ""
       /\ estRet.err = NilErr =>
            reply = [Count |-> estRet.count, ErrMessage |-> "", err |-> NilErr]

\* A CREATE TABLE statement has been answered with the message.
C23_Witness ==
  /\ estPc = "replied"
  /\ sqlIn.node = OtherNode
  /\ reply.ErrMessage = ErrUnsupportedSqlType
  /\ reply.err = NilErr

\* The pre-validation of the statement under audit has run.
PreValidated == Len(stages) >= 2 /\ stages[2] = "PreValidate"

PreCheckFindings(res) == SelectSeq(res, LAMBDA f : f.RuleName = "pre_check_err")

\* C24: an error of the pre-validation that tells that the content of SHOW
\* CREATE TABLE could not be parsed does not abort the audit: exactly one
\* finding named pre_check_err, at warning level, is in the result and the
\* audit goes on with the stages after the pre-validation; every other error
\* of the pre-validation aborts the audit with that error, and Audit returns
\* it with no result.
C24_ParseDDLErrorWarnsOthersAbort ==
  PreValidated =>
    /\ checkErr = "ParseShowCreateTableContentErr" =>
         /\ PreCheckFindings(result) = <<Finding("warn", "pre_check_err", FALSE)>>
         /\ result[1].RuleName = "pre_check_err"
         /\ auditErr # checkErr
         /\ pc = "dispatch" \/ Len(stages) > 2
    /\ checkErr \notin {NilErr, "ParseShowCreateTableContentErr"} =>
         /\ stages = <<"Parse", "PreValidate">>
         /\ auditErr = checkErr
         /\ pc \in {"audit returned", "returned"}
         /\ pc = "returned" => ret = [results |-> <<>>, err |-> checkErr]
    /\ checkErr = NilErr => PreCheckFindings(result) = <<>>

\* After the warning of the pre-validation the audit of the statement has
\* run to its last stage and returned its result.
C24_Witness ==
  /\ pc = "audit returned"
  /\ checkErr = "ParseShowCreateTableContentErr"
  /\ auditErr = NilErr
  /\ "RollbackAnnotation" \in Range(stages)
  /\ PreCheckFindings(result) # <<>>

\* C28: the result of a statement is a result set made for that statement:
\* it is empty when the audit of the statement starts, it is none of the
\* result sets returned for earlier statements, and once it is among the
\* results of the batch neither that entry nor the object behind it changes
\* while later statements are audited.
C28_FreshResultPerStatement ==
  /\ [](/\ pc = "parse" => result = <<>>
        /\ pc \in AuditStagePCs => resultId \notin Range(resultIds)
        /\ Len(resultIds) = Len(results)
        /\ \A a, b \in 1..Len(resultIds) : a # b => resultIds[a] # resultIds[b])
  /\ [][\A j \in 1..Len(results) :
          Len(results') >= j =>
            /\ results'[j] = results[j]
            /\ resultIds'[j] = resultIds[j]
            /\ resultId' = resultIds[j] => result' = results[j]]_vars

\* Two statements with findings of their own have been audited and their
\* results returned.
C28_Witness ==
  /\ pc = "returned"
  /\ Len(ret.results) = 2
  /\ ret.results[1] # <<>>
  /\ ret.results[2] # <<>>
  /\ ret.results[1] # ret.results[2]
  /\ resultIds = <<1, 2>>

FindingsOf(res, name) == SelectSeq(res, LAMBDA f : f.RuleName = name)

\* C25: when the definition of the table of an ALTER TABLE ... RENAME INDEX
\* cannot be resolved from the session context, the result of the statement
\* holds no finding of SQLE00041 and none of SQLE00063.
C25_UnresolvedTableYieldsNoFinding ==
  (/\ pc \in AuditStagePCs \cup {"audit returned"}
   /\ node.kind = "AlterTableStmt"
   /\ GetCreateTableStmt(Ctx, node.table) # NilErr) =>
    /\ FindingsOf(result, SQLE00041) = <<>>
    /\ FindingsOf(result, SQLE00063) = <<>>

\* The handler has returned and its rule has a finding in the result set.
Reported ==
  /\ hPc = "returned"
  /\ FindingsOf(input.Res, input.Rule.Name) # <<>>

\* The table of the statement as the session knows it.
KnownTable == GetCreateTableStmt(input.Ctx, input.Node.table) = NilErr

\* C26: for an ALTER TABLE with one RENAME INDEX old TO new on a table the
\* session knows, SQLE00063 reports exactly when the table has a unique
\* constraint named old and new is not IDX_UK_<table>_<columns of that
\* constraint>; the renaming of an index that is no unique constraint of
\* the table is not reported.
C26_RenameCheckedAgainstMatchedConstraint ==
  (/\ hPc = "returned"
   /\ input.Rule.Name = SQLE00063
   /\ input.Node.kind = "AlterTableStmt"
   /\ Len(input.Node.Specs) = 1
   /\ input.Node.Specs[1].Tp = AlterTableRenameIndex
   /\ KnownTable) =>
    LET cs == CreateTableStmtOf(input.Ctx, input.Node.table).Constraints
        old == input.Node.Specs[1].FromKey
        new == input.Node.Specs[1].ToKey
    IN  Reported <=>
          \E j \in 1..Len(cs) :
            /\ cs[j].Tp = ConstraintUniq
            /\ EqualFold(cs[j].Name, old)
            /\ ~EqualFold(new, <<"IDX", "UK", input.Node.table>> \o Join(cs[j].Keys))

\* The statement types a handler looks at.
Inspected(name) ==
  IF name = SQLE00004 THEN {"CreateTableStmt", "SetStmt"}
  ELSE {"AlterTableStmt", "CreateTableStmt", "CreateIndexStmt"}

\* C27: a handler of SQLE00004, SQLE00041 or SQLE00063 called on a statement
\* of a type it does not look at returns no error and adds no finding,
\* whatever the parameters of the rule, a missing parameter key included.
C27_OtherStatementsPassSilently ==
  (/\ hPc = "returned"
   /\ input.Node.kind \notin Inspected(input.Rule.Name)) =>
    /\ hErr = NilErr
    /\ ~Reported

\* C29: SQLE00004 reports a CREATE TABLE exactly when it has an
\* AUTO_INCREMENT table option other than 0, and a SET of
\* auto_increment_offset to a literal exactly when the value is greater
\* than 0.
C29_AutoIncrementStartsAtZero ==
  (hPc = "returned" /\ input.Rule.Name = SQLE00004) =>
    /\ input.Node.kind = "CreateTableStmt" =>
         (Reported <=>
            \E j \in 1..Len(input.Node.Options) :
              /\ input.Node.Options[j].Tp = TableOptionAutoIncrement
              /\ input.Node.Options[j].UintValue # 0)
    /\ (/\ input.Node.kind = "SetStmt"
        /\ input.Node.Variables[1].Name
              \in {"auto_increment_offset", "AUTO_INCREMENT_OFFSET"}
        /\ input.Node.Variables[1].Value.isValueExpr) =>
         (Reported <=> input.Node.Variables[1].Value.int > 0)

\* C30: with the prefix configured, SQLE00041 reports a CREATE INDEX exactly
\* when the index is UNIQUE and its name does not start with the prefix.
C30_CreateIndexReportedIffUniqueWithoutPrefix ==
  (/\ hPc = "returned"
   /\ input.Rule.Name = SQLE00041
   /\ input.Rule.Params = DefaultParams
   /\ input.Node.kind = "CreateIndexStmt") =>
    (Reported <=>
       /\ input.Node.KeyType = IndexKeyTypeUnique
       /\ ~HasPrefix(input.Node.IndexName, UniqPrefix))

HasEmptySql(batch) == \E j \in 1..Len(batch) : batch[j] = ""

\* C36: when a string of the batch handed to Audit is empty, at whatever
\* position, Audit returns an error and no results, the audit of no statement
\* of the batch starts, and the call leaves the session context and the
\* result set of the driver as they were.
C36_EmptyStringRejectsBatch ==
  /\ [](HasEmptySql(sqls) =>
          /\ pc = "returned"
          /\ ret = [results |-> <<>>, err |-> "has empty sql"]
          /\ audited = <<>>
          /\ stages = <<>>
          /\ results = <<>>)
  /\ [][(~HasEmptySql(sqls) /\ HasEmptySql(sqls')) =>
          /\ Ctx' = Ctx
          /\ result' = result
          /\ resultId' = resultId
          /\ HasInvalidSql' = HasInvalidSql]_vars

\* A batch whose second string is empty has been rejected.
C36_Witness ==
  /\ pc = "returned"
  /\ Len(sqls) = 2
  /\ sqls[1] # ""
  /\ sqls[2] = ""
  /\ ret.err = "has empty sql"

\* C33: when the generation of the OSC command line fails because the
\* content of SHOW CREATE TABLE could not be parsed, the stage adds no
\* finding and the audit goes on to the context update and returns no
\* error; every other error of the stage aborts the audit with that error;
\* the notice-level finding of the OSC rule is added exactly when a command
\* line was generated.
C33_OscParseErrorOnlyLogged ==
  /\ [][pc = "osc" =>
          /\ oscErr' = "ParseShowCreateTableContentErr" =>
               /\ result' = result
               /\ pc' = "update"
               /\ auditErr' = NilErr
          /\ oscErr' \notin {NilErr, "ParseShowCreateTableContentErr"} =>
               /\ result' = result
               /\ pc' = "audit returned"
               /\ auditErr' = oscErr'
               /\ Ctx' = Ctx
          /\ oscErr' = NilErr =>
               /\ pc' = "update"
               /\ result' = IF oscCommandLine'
                            THEN Append(result, Finding("notice", "ddl_check_osc_min_size", FALSE))
                            ELSE result]_vars
  /\ []((/\ pc = "audit returned"
         /\ "RollbackAnnotation" \in Range(stages)
         /\ oscErr \in {NilErr, "ParseShowCreateTableContentErr"}) =>
          /\ auditErr = NilErr
          /\ ~cnf.isExecutedSQL => Ctx = UpdateContext(ctxAtStart, node))

\* The audit of a statement has returned its result, with the context
\* updated, after the parse error in the OSC stage.
C33_Witness ==
  /\ pc = "audit returned"
  /\ oscErr = "ParseShowCreateTableContentErr"
  /\ auditErr = NilErr
  /\ "ContextUpdate" \in Range(stages)
  /\ Ctx = UpdateContext(ctxAtStart, node)

\* C31: over every sequence of operations on one driver, Close and failed
\* connection attempts included, getDbConn establishes a connection at most
\* once, and a call of getDbConn that follows returns the connection that
\* was established and connects no more.
C31_ConnectsAtMostOnce ==
  established <= 1

DbOperations == {"Exec", "ExecBatch", "Tx", "Ping", "Schemas", "EstimateSQLAffectRows"}

\* C35: in offline audit mode Exec, ExecBatch, Tx, Ping, Schemas and
\* EstimateSQLAffectRows return no error and nothing but nil results, get
\* no connection, run nothing on the database and do not call the
\* online-DDL tool, and they leave isConnected, dbConn and the connections
\* as they are.
C35_OfflineOperationsDoNothing ==
  /\ []((isOfflineAudit /\ op \in DbOperations) =>
          /\ pc \in {"idle", "exec loop", "exec", "op returned"}
          /\ dbExecs = <<>>
          /\ toolCalls = <<>>
          /\ established = 0
          /\ execRet.err = NilErr
          /\ \A j \in 1..Len(execRet.results) : execRet.results[j] = NoResult
          /\ (pc = "op returned" /\ op = "Exec") => execRet.results = <<NoResult>>
          /\ (pc = "op returned" /\ op = "ExecBatch") => Len(execRet.results) = Len(queries))
  /\ [][(isOfflineAudit /\ op' \in DbOperations) =>
          /\ isConnected' = isConnected
          /\ dbConn' = dbConn
          /\ conns' = conns]_vars

\* An offline driver that was handed an open executor has returned from a
\* batch of two statements, one of them an ALTER TABLE with the online-DDL
\* tool configured.
C35_Witness ==
  /\ isOfflineAudit
  /\ pc = "op returned"
  /\ op = "ExecBatch"
  /\ Len(queries) = 2
  /\ queries[2] = AlterT1
  /\ cnf.DDLGhostMinSize # NoMinSize
  /\ dbConn # 0
  /\ execRet = [results |-> <<NoResult, NoResult>>, err |-> NilErr]

(***************************************************************************)
(* SetRules between construction and Audit.                                *)
(***************************************************************************)
\* SetRules, lines 129-131: the list is replaced, cnf stays as applyConfig
\* left it.
SetRules ==
  /\ pc = "idle"
  /\ \E rs \in OpsConfigLists : rules' = rs
  /\ op' = "SetRules"
  /\ UNCHANGED <<pc, cnf, isOfflineAudit, isConnected, inst, HasInvalidSql, Ctx,
                 result, callVars, auditVars, histVars, connVars, cancelled,
                 execVars, execHist, estVars, objVars, ruleVars>>

NextSetRules ==
  \/ SetRules
  \/ Audit
  \/ AuditNext
  \/ AuditCollect
  \/ Parse
  \/ PreValidate
  \/ DispatchRule
  \/ DispatchDone
  \/ IndexOptimizationPass
  \/ OnlineDDLDecision
  \/ RollbackAnnotation
  \/ ContextUpdate

SpecSetRules == InitOps /\ [][NextSetRules]_vars

\* C34: whenever audit takes the online-DDL path, the rule of the
\* online-DDL tool is in i.rules and ghostRule points to it, so that the
\* finding of the dry run is added under its name.
C34_GhostRulePresentOnOnlineDDLPath ==
  [][(pc = "ghost" /\ dryRuns' # dryRuns) =>
       /\ \E j \in 1..Len(rules) : rules[j].Name = ConfigDDLGhostMinSize
       /\ ghostRule # NilRule
       /\ pc' = "osc"
       /\ FindingsOf(result', ConfigDDLGhostMinSize) # <<>>]_vars

(***************************************************************************)
(* util.IsIndex called on its own.                                         *)
(***************************************************************************)
\* IsIndex, lines 346-353: the number of leading keys that are in columnMap.
RECURSIVE matchCount(_, _)
matchCount(keys, columnMap) ==
  IF keys = <<>> THEN 0
  ELSE IF Head(keys) \in columnMap THEN 1 + matchCount(Tail(keys), columnMap)
  ELSE 0

\* IsIndex, lines 338-360.
IsIndex(columnMap, cs) ==
  IF Cardinality(columnMap) = 0 THEN FALSE
  ELSE \E j \in 1..Len(cs) :
         /\ ~(Cardinality(columnMap) > Len(cs[j].Keys))
         /\ matchCount(cs[j].Keys, columnMap) = Cardinality(columnMap)

ColumnNames == {"a", "b"}

\* The indexes k over up to MaxKeys key columns, as the parser hands them on.
KeyConstraints ==
  {Constraint(ConstraintIndex, <<"k">>, keys) : keys \in SeqsUpTo(ColumnNames, MaxKeys)}

InitIsIndex ==
  /\ NoDriver
  /\ NoEstimate
  /\ hPc = "off"
  /\ input = NilInput
  /\ hErr = NilErr
  /\ uPc = "start"
  /\ isIndexArgs \in [columnMap : SUBSET ColumnNames,
                       constraints : SeqsUpTo(KeyConstraints, MaxConstraints)]
  /\ isIndexRet = FALSE

CallIsIndex ==
  /\ uPc = "start"
  /\ isIndexRet' = IsIndex(isIndexArgs.columnMap, isIndexArgs.constraints)
  /\ uPc' = "returned"
  /\ UNCHANGED <<ruleFrame, hPc, input, hErr, isIndexArgs>>

NextIsIndex ==
  \/ CallIsIndex

SpecIsIndex == InitIsIndex /\ [][NextIsIndex]_vars

\* The set of the first n key columns of a constraint.
LeadingColumns(c, n) == {c.Keys[h] : h \in 1..n}

\* C32: IsIndex returns true exactly when the column set is not empty and,
\* with N its size, equals the set of the first N key columns of one of the
\* constraints with at least N key columns.
C32_IsIndexIffLeadingColumns ==
  uPc = "returned" =>
    LET columnMap == isIndexArgs.columnMap
        cs == isIndexArgs.constraints
        N == Cardinality(columnMap)
    IN  isIndexRet <=>
          /\ N > 0
          /\ \E j \in 1..Len(cs) :
                /\ Len(cs[j].Keys) >= N
                /\ LeadingColumns(cs[j], N) = columnMap

============================================================================
